---- MODULE Spec2Model ----
(***************************************************************************)
(* State-machine model of the GPS parser adapters                          *)
(* (src/src/parsers/trackimo_parser.py, src/src/parsers/arvento_parser.py).*)
(*                                                                         *)
(* A coroutine is modelled by a call stack of frames.  A frame is a record *)
(* with the coroutine's name (fn), its position (pc) and its locals.  One  *)
(* action is one block of straight-line code between two awaits.  The      *)
(* vendor's answers are chosen nondeterministically when a response is     *)
(* received.  Time is counted in seconds.                                  *)
(***************************************************************************)
EXTENDS Integers, Sequences, FiniteSets, TLC

\* ------------------------------------------------------------------ bounds
MaxTime   == 2      \* the clock runs from 0 to MaxTime
MaxFaults == 2      \* vendor answers other than the plain success, per behaviour
MaxDepth  == 8      \* frames on the call stack

\* ------------------------------------------------------- values and inputs
None == -1                      \* Python's None for integer-valued fields
Tokens == {1, 2}                \* access tokens the vendor issues
SuppliedRefreshTokens == {1}    \* refresh tokens a caller passes to connect
VendorRefreshTokens == {2}      \* refresh tokens the vendor issues
AccountIds == {7}               \* accountId values the vendor reports
ExpiresIn == {1000}             \* expires_in values of a token response, milliseconds
Credentials == {<<None, None>>, <<1, 1>>}   \* (username, password) pairs
DeviceArgs == {1}               \* device ids passed to the per-device operations
OneDevice == {1}                \* the vendor lists one device
PagingCounts == {0, 1, 20, 21, 40}  \* sizes of the vendor's device list, paging specification

limit == 20                     \* get_devices: page size

\* return values and response bodies are records tagged by k
RNone == [k |-> "none"]                     \* None
REmpty == [k |-> "empty"]                   \* {} : 2xx response without text
RBool(b) == [k |-> "bool", v |-> b]
RList(items) == [k |-> "list", items |-> items]
Absent == "absent"                          \* a string-valued key that is missing

\* Python truthiness of a response body: None, {} and [] are falsy
Truthy(d) == \/ d.k = "json"
             \/ d.k = "list" /\ Len(d.items) > 0

VARIABLES
    \* TrackimoParser instance
    _session,           \* TRUE iff self._session is a Session object
    _access_token,
    _refresh_token,
    _token_expires,
    _account_id,
    _username,
    _password,
    _devices,           \* BaseParser._devices : device id -> device
    \* environment
    now,                \* datetime.now()
    vendorN,            \* the vendor lists devices 1..vendorN
    faults,             \* vendor faults still available
    \* the running task
    stack,              \* call stack, innermost frame last
    ret,                \* value returned by the frame popped last
    exc,                \* TRUE while an exception propagates
    op,                 \* the public operation called last
    log                 \* requests and refreshes of that operation

tvars == <<_session, _access_token, _refresh_token, _token_expires, _account_id,
           _username, _password, _devices, now, vendorN, faults,
           stack, ret, exc, op, log>>

VARIABLES
    \* ArventoParser instance
    a_offline,          \* self._offline
    a_connected,        \* self._connected
    a_client,           \* TRUE iff self._client is a zeep Client
    a_mock_nodes,       \* self._mock_nodes : plate -> node
    a_mock_locations,   \* self._mock_locations : node -> location
    a_devices,          \* BaseParser._devices of the Arvento adapter : node -> device
    ZEEP_AVAILABLE,     \* the zeep import succeeded
    a_op,               \* the public operation called last
    a_log               \* the network calls of that operation

avars == <<a_offline, a_connected, a_client, a_mock_nodes, a_mock_locations, a_devices,
           ZEEP_AVAILABLE, a_op, a_log>>

VARIABLES
    pure                \* a pure function, its input and its output

VARIABLES
    \* the facade (src/src/server.py)
    parsers,            \* parsers : provider name -> identity of the installed adapter
    f_op                \* the handler called last and its response

fvars == <<parsers, f_op>>

VARIABLES
    \* the objects of the process and the handlers in flight
    instances,          \* the ArventoParser objects constructed: identity -> fields
    dicts,              \* the dict objects they refer to: identity -> contents
    tasks,              \* the arvento_connect handlers: task -> its step and its adapter
    events,             \* the handlers that answered 200 on the registry, in order
    acted,              \* the step taken last and the adapter it acted on
    agg                 \* the get_all_devices handler in flight: its step, the registry it began with

cvars == <<instances, dicts, tasks, events, acted, agg>>

vars == <<tvars, avars, pure, fvars, cvars>>

\* ------------------------------------------------------------ call stack
Frame(fn, pc) ==
    [fn |-> fn, pc |-> pc, ep |-> "", arg |-> None, no_auth |-> FALSE,
     hdr |-> None, data |-> RNone, page |-> 0, idx |-> 0]

ApiFrame(ep, arg, no_auth) ==
    [Frame("_api_request", "start") EXCEPT !.ep = ep, !.arg = arg, !.no_auth = no_auth]

Top == stack[Len(stack)]
Running(fn, pc) == /\ ~exc
                   /\ stack # <<>>
                   /\ Top.fn = fn
                   /\ Top.pc = pc
Idle == stack = <<>> /\ ~exc

\* the task is suspended in run_in_executor, waiting for a response
Suspended == /\ ~exc
             /\ stack # <<>>
             /\ Top.pc \in {"wait", "wait2"}

\* the frame on top moves to f
Goto(f) == stack' = [stack EXCEPT ![Len(stack)] = f]

\* await callee(): the frame on top becomes f and waits, callee starts
Call(f, callee) ==
    /\ Len(stack) < MaxDepth
    /\ stack' = Append([stack EXCEPT ![Len(stack)] = f], callee)

\* return v; the return of the outermost frame ends the operation
Return(v) ==
    /\ stack' = SubSeq(stack, 1, Len(stack) - 1)
    /\ ret' = v
    /\ op' = IF Len(stack) = 1
             THEN [op EXCEPT !.status = "returned", !.result = v]
             ELSE op

\* the record of a public operation: what was called, how it ended, and the
\* token, account id and registered device ids when it was called
OpRecord(name, arg, status, result) ==
    [name |-> name, arg |-> arg, status |-> status, result |-> result,
     token0 |-> _access_token, account0 |-> _account_id, known0 |-> DOMAIN _devices]

\* a public operation starts: the log is that of the new operation
Begin(name, arg) ==
    /\ Idle
    /\ op' = OpRecord(name, arg, "running", RNone)
    /\ log' = <<>>

\* a public operation raises before its first await
Raise(name, arg, e) ==
    /\ Idle
    /\ op' = OpRecord(name, arg, "raised", [k |-> "raise", e |-> e])
    /\ log' = <<>>

\* log entries: a call of _api_request, a request put on the wire (hdr is the
\* bearer token, None without the header), a response, a call of
\* _refresh_access_token (by names the caller)
CallEv(f, expired) == [ev |-> "call", ep |-> f.ep, arg |-> f.arg, no_auth |-> f.no_auth,
                       expired |-> expired]
Http(ep, hdr, arg) == [ev |-> "http", ep |-> ep, hdr |-> hdr, arg |-> arg]
Resp(ep, status, body) == [ev |-> "resp", ep |-> ep, status |-> status, body |-> body]
RefreshEv(by) == [ev |-> "refresh", by |-> by]

\* ------------------------------------------------------------ the vendor
\* page p of the device listing: the ids (p-1)*limit+1 .. min(p*limit, vendorN)
VendorPage(p) ==
    LET first == (p - 1) * limit + 1
        n == IF vendorN < first THEN 0
             ELSE IF vendorN - first + 1 > limit THEN limit
             ELSE vendorN - first + 1
    IN  [i \in 1..n |-> first + i - 1]

\* a location row of the vendor for device d
VendorLocation(d) ==
    [k |-> "json", device_id |-> d, time |-> 1000 + d, updated |-> None,
     lat |-> 40 + d, lng |-> 29 + d, altitude |-> None, speed |-> 10, speed_unit |-> "mph",
     battery |-> 80, moving |-> None, gps |-> None, hdop |-> None]

\* the vendor never issues the access token the adapter already holds
IssuedToken == IF _access_token = 1 THEN 2 ELSE 1

TokenBodies == [k : {"json"}, access_token : {IssuedToken},
                refresh_token : VendorRefreshTokens, expires_in : ExpiresIn]

\* token responses in which one field is missing
TokenQuirks == UNION {{[b EXCEPT !.access_token = None],
                       [b EXCEPT !.refresh_token = None],
                       [b EXCEPT !.expires_in = None]} : b \in TokenBodies}

\* the plain 2xx bodies of an endpoint
GoodBodies(ep, arg) ==
    CASE ep = "oauth2/auth" -> {[k |-> "json", code |-> 1]}
      [] ep \in {"oauth2/token", "oauth2/token/refresh"} -> TokenBodies
      [] ep = "users/me" -> {[k |-> "json", accountId |-> a] : a \in AccountIds}
      [] ep = "devices" -> {RList(VendorPage(arg))}
      [] ep = "device" -> {[k |-> "json", name |-> arg, imsi |-> arg, status |-> 1, type |-> 1]}
      [] ep = "locations/filter" -> {RList([i \in 1..vendorN |-> VendorLocation(i)])}
      [] ep = "location" -> {IF arg \in 1..vendorN THEN VendorLocation(arg) ELSE REmpty}
      [] ep = "history" -> {RList(<<>>), RList(<<VendorLocation(arg.id)>>)}
      [] OTHER -> {REmpty}

\* 2xx bodies that lack what the caller expects
QuirkBodies(ep, arg) ==
    CASE ep = "oauth2/auth" -> {[k |-> "json", code |-> None]}
      [] ep \in {"oauth2/token", "oauth2/token/refresh"} -> TokenQuirks
      [] ep = "users/me" -> {[k |-> "json", accountId |-> None]}
      [] ep \in {"device", "locations/filter"} -> {REmpty}
      [] OTHER -> {}

\* the responses to a request; cost is what the response takes from faults
Responses(ep, arg, no_auth) ==
    {[status |-> 200, body |-> b, cost |-> 0] : b \in GoodBodies(ep, arg)}
    \cup {[status |-> 200, body |-> b, cost |-> 1] : b \in QuirkBodies(ep, arg)}
    \cup {[status |-> 500, body |-> RNone, cost |-> 1]}
    \cup (IF no_auth THEN {} ELSE {[status |-> 401, body |-> RNone, cost |-> 1]})

Charge(r) == /\ r.cost <= faults
             /\ faults' = faults - r.cost

\* ---------------------------------------------------------- _api_request
\* the Authorization header of the first attempt (None: no header)
Headers(no_auth) == IF ~no_auth /\ _access_token # None THEN _access_token ELSE None

Expired == _token_expires # None /\ now > _token_expires

\* _api_request without the expiry check of line 184
_api_request_start_unchecked ==
    /\ Running("_api_request", "start")
    /\ _session' = TRUE
    /\ Goto([Top EXCEPT !.pc = "wait", !.hdr = Headers(Top.no_auth)])
    /\ log' = log \o <<CallEv(Top, Expired), Http(Top.ep, Headers(Top.no_auth), Top.arg)>>
    /\ UNCHANGED <<_access_token, _refresh_token, _token_expires, _account_id,
                   _username, _password, _devices, now, vendorN, faults, ret, exc, op>>
    /\ UNCHANGED <<avars, pure, fvars, cvars>>

\* lines 180-200: create the session, refresh an expired token, send
_api_request_start ==
    /\ Running("_api_request", "start")
    /\ _session' = TRUE
    /\ IF ~Top.no_auth /\ Expired
       THEN /\ Call([Top EXCEPT !.pc = "send"], Frame("_refresh_access_token", "start"))
            /\ log' = log \o <<CallEv(Top, Expired), RefreshEv("expiry")>>
       ELSE /\ Goto([Top EXCEPT !.pc = "wait", !.hdr = Headers(Top.no_auth)])
            /\ log' = log \o <<CallEv(Top, Expired),
                                Http(Top.ep, Headers(Top.no_auth), Top.arg)>>
    /\ UNCHANGED <<_access_token, _refresh_token, _token_expires, _account_id,
                   _username, _password, _devices, now, vendorN, faults, ret, exc, op>>
    /\ UNCHANGED <<avars, pure, fvars, cvars>>

\* lines 187-200, after the refresh of line 185 has returned; without a
\* session (a disconnect during the refresh) self._session.request raises
\* AttributeError, which line 213 catches: None is returned, nothing is sent
_api_request_send ==
    /\ Running("_api_request", "send")
    /\ IF _session
       THEN /\ Goto([Top EXCEPT !.pc = "wait", !.hdr = Headers(Top.no_auth)])
            /\ log' = Append(log, Http(Top.ep, Headers(Top.no_auth), Top.arg))
            /\ UNCHANGED <<ret, op>>
       ELSE /\ Return(RNone)
            /\ UNCHANGED log
    /\ UNCHANGED <<_session, _access_token, _refresh_token, _token_expires, _account_id,
                   _username, _password, _devices, now, vendorN, faults, exc>>
    /\ UNCHANGED <<avars, pure, fvars, cvars>>

\* lines 202-217 on the first response
_api_request_response ==
    /\ Running("_api_request", "wait")
    /\ \E r \in Responses(Top.ep, Top.arg, Top.no_auth) :
        /\ Charge(r)
        /\ IF r.status = 401 /\ ~Top.no_auth
           THEN /\ Call([Top EXCEPT !.pc = "retry"], Frame("_refresh_access_token", "start"))
                /\ log' = log \o <<Resp(Top.ep, r.status, r.body), RefreshEv("401")>>
                /\ UNCHANGED <<ret, op>>
           ELSE /\ Return(IF r.status = 200 THEN r.body ELSE RNone)
                /\ log' = Append(log, Resp(Top.ep, r.status, r.body))
    /\ UNCHANGED <<_session, _access_token, _refresh_token, _token_expires, _account_id,
                   _username, _password, _devices, now, vendorN, exc>>
    /\ UNCHANGED <<avars, pure, fvars, cvars>>

\* lines 204-208: the retry carries the token the adapter holds now
_api_request_retry ==
    /\ Running("_api_request", "retry")
    /\ IF _session
       THEN /\ Goto([Top EXCEPT !.pc = "wait2", !.hdr = _access_token])
            /\ log' = Append(log, Http(Top.ep, _access_token, Top.arg))
            /\ UNCHANGED <<ret, op>>
       ELSE /\ Return(RNone)
            /\ UNCHANGED log
    /\ UNCHANGED <<_session, _access_token, _refresh_token, _token_expires, _account_id,
                   _username, _password, _devices, now, vendorN, faults, exc>>
    /\ UNCHANGED <<avars, pure, fvars, cvars>>

\* lines 210-217 on the response to the retry
_api_request_retry_response ==
    /\ Running("_api_request", "wait2")
    /\ \E r \in Responses(Top.ep, Top.arg, Top.no_auth) :
        /\ Charge(r)
        /\ Return(IF r.status = 200 THEN r.body ELSE RNone)
        /\ log' = Append(log, Resp(Top.ep, r.status, r.body))
    /\ UNCHANGED <<_session, _access_token, _refresh_token, _token_expires, _account_id,
                   _username, _password, _devices, now, vendorN, exc>>
    /\ UNCHANGED <<avars, pure, fvars, cvars>>

\* the frame on top returns what its callee returned (return await callee())
ReturnTail(fn) ==
    /\ Running(fn, "tail")
    /\ Return(ret)
    /\ UNCHANGED <<_session, _access_token, _refresh_token, _token_expires, _account_id,
                   _username, _password, _devices, now, vendorN, faults, exc, log>>
    /\ UNCHANGED <<avars, pure, fvars, cvars>>

\* an exception leaves the frame on top; leaving the outermost frame ends the operation
Unwind ==
    /\ stack' = SubSeq(stack, 1, Len(stack) - 1)
    /\ IF Len(stack) = 1
       THEN /\ exc' = FALSE
            /\ op' = [op EXCEPT !.status = "raised",
                                !.result = [k |-> "raise", e |-> "RequestException"]]
       ELSE /\ exc' = TRUE
            /\ UNCHANGED op

\* the token fields a token response sets (lines 121-125 and 153-156)
ExpiresAt(data) ==
    IF data.expires_in # None THEN now + (data.expires_in \div 1000) ELSE _token_expires

\* ------------------------------------------------- _refresh_access_token
\* lines 141-151
_refresh_access_token_start ==
    /\ Running("_refresh_access_token", "start")
    /\ IF _refresh_token = None
       THEN Call([Top EXCEPT !.pc = "tail"], Frame("_login", "start"))
       ELSE Call([Top EXCEPT !.pc = "got"],
                 ApiFrame("oauth2/token/refresh", _refresh_token, TRUE))
    /\ UNCHANGED <<_session, _access_token, _refresh_token, _token_expires, _account_id,
                   _username, _password, _devices, now, vendorN, faults, ret, exc, op, log>>
    /\ UNCHANGED <<avars, pure, fvars, cvars>>

\* lines 152-162 on the refresh response
_refresh_access_token_got ==
    /\ Running("_refresh_access_token", "got")
    /\ IF Truthy(ret) /\ ret.access_token # None
       THEN /\ _access_token' = ret.access_token
            /\ _refresh_token' = IF ret.refresh_token # None THEN ret.refresh_token
                                 ELSE _refresh_token
            /\ _token_expires' = ExpiresAt(ret)
            /\ Call([Top EXCEPT !.pc = "after_user_info"], Frame("_get_user_info", "start"))
       ELSE /\ Call([Top EXCEPT !.pc = "tail"], Frame("_login", "start"))
            /\ UNCHANGED <<_access_token, _refresh_token, _token_expires>>
    /\ UNCHANGED <<_session, _account_id, _username, _password, _devices, now, vendorN,
                   faults, ret, exc, op, log>>
    /\ UNCHANGED <<avars, pure, fvars, cvars>>

\* line 158
_refresh_access_token_true ==
    /\ Running("_refresh_access_token", "after_user_info")
    /\ Return(RBool(TRUE))
    /\ UNCHANGED <<_session, _access_token, _refresh_token, _token_expires, _account_id,
                   _username, _password, _devices, now, vendorN, faults, exc, log>>
    /\ UNCHANGED <<avars, pure, fvars, cvars>>

\* lines 142 and 162: return await self._login()
_refresh_access_token_tail == ReturnTail("_refresh_access_token")

\* --------------------------------------------------------- _get_user_info
\* line 166
_get_user_info_start ==
    /\ Running("_get_user_info", "start")
    /\ Call([Top EXCEPT !.pc = "got"], ApiFrame("users/me", None, FALSE))
    /\ UNCHANGED <<_session, _access_token, _refresh_token, _token_expires, _account_id,
                   _username, _password, _devices, now, vendorN, faults, ret, exc, op, log>>
    /\ UNCHANGED <<avars, pure, fvars, cvars>>

\* lines 167-168
_get_user_info_got ==
    /\ Running("_get_user_info", "got")
    /\ _account_id' = IF Truthy(ret) /\ ret.accountId # None THEN ret.accountId
                      ELSE _account_id
    /\ Return(RNone)
    /\ UNCHANGED <<_session, _access_token, _refresh_token, _token_expires,
                   _username, _password, _devices, now, vendorN, faults, exc, log>>
    /\ UNCHANGED <<avars, pure, fvars, cvars>>

\* ----------------------------------------------------------------- _login
\* the vendor's answers to the login POST: null credentials are never accepted
LoginResponses ==
    IF _username = None \/ _password = None
    THEN {[status |-> 400, cost |-> 0]}
    ELSE {[status |-> 200, cost |-> 0], [status |-> 403, cost |-> 1],
          [status |-> 0, cost |-> 1]}      \* status 0: the POST raises

\* lines 76-90: new session, POST the credentials
_login_start ==
    /\ Running("_login", "start")
    /\ _session' = TRUE
    /\ Goto([Top EXCEPT !.pc = "wait"])
    /\ log' = Append(log, Http("login", None, _username))
    /\ UNCHANGED <<_access_token, _refresh_token, _token_expires, _account_id,
                   _username, _password, _devices, now, vendorN, faults, ret, exc, op>>
    /\ UNCHANGED <<avars, pure, fvars, cvars>>

\* lines 92-104 on the login response
_login_response ==
    /\ Running("_login", "wait")
    /\ \E r \in LoginResponses :
        /\ Charge(r)
        /\ log' = Append(log, Resp("login", r.status, RNone))
        /\ CASE r.status = 200 ->
                  /\ Call([Top EXCEPT !.pc = "got_code"], ApiFrame("oauth2/auth", None, TRUE))
                  /\ UNCHANGED <<ret, op, exc>>
             [] r.status = 0 ->
                  /\ Unwind
                  /\ UNCHANGED ret
             [] OTHER ->
                  /\ Return(RBool(FALSE))
                  /\ UNCHANGED exc
    /\ UNCHANGED <<_session, _access_token, _refresh_token, _token_expires, _account_id,
                   _username, _password, _devices, now, vendorN>>
    /\ UNCHANGED <<avars, pure, fvars, cvars>>

\* _login without the test for "code" of line 105
_login_got_code_unchecked ==
    /\ Running("_login", "got_code")
    /\ IF ~Truthy(ret)
       THEN Return(RBool(FALSE))
       ELSE /\ Call([Top EXCEPT !.pc = "got_token"], ApiFrame("oauth2/token", ret.code, TRUE))
            /\ UNCHANGED <<ret, op>>
    /\ UNCHANGED <<_session, _access_token, _refresh_token, _token_expires, _account_id,
                   _username, _password, _devices, now, vendorN, faults, exc, log>>
    /\ UNCHANGED <<avars, pure, fvars, cvars>>

\* lines 105-116 on the auth response
_login_got_code ==
    /\ Running("_login", "got_code")
    /\ IF ~Truthy(ret) \/ ret.code = None
       THEN Return(RBool(FALSE))
       ELSE /\ Call([Top EXCEPT !.pc = "got_token"], ApiFrame("oauth2/token", ret.code, TRUE))
            /\ UNCHANGED <<ret, op>>
    /\ UNCHANGED <<_session, _access_token, _refresh_token, _token_expires, _account_id,
                   _username, _password, _devices, now, vendorN, faults, exc, log>>
    /\ UNCHANGED <<avars, pure, fvars, cvars>>

\* lines 117-128 on the token response
_login_got_token ==
    /\ Running("_login", "got_token")
    /\ IF ~Truthy(ret) \/ ret.access_token = None
       THEN /\ Return(RBool(FALSE))
            /\ UNCHANGED <<_access_token, _refresh_token, _token_expires>>
       ELSE /\ _access_token' = ret.access_token
            /\ _refresh_token' = ret.refresh_token
            /\ _token_expires' = ExpiresAt(ret)
            /\ Call([Top EXCEPT !.pc = "after_user_info"], Frame("_get_user_info", "start"))
            /\ UNCHANGED <<ret, op>>
    /\ UNCHANGED <<_session, _account_id, _username, _password, _devices, now, vendorN,
                   faults, exc, log>>
    /\ UNCHANGED <<avars, pure, fvars, cvars>>

\* lines 130-131
_login_true ==
    /\ Running("_login", "after_user_info")
    /\ Return(RBool(TRUE))
    /\ UNCHANGED <<_session, _access_token, _refresh_token, _token_expires, _account_id,
                   _username, _password, _devices, now, vendorN, faults, exc, log>>
    /\ UNCHANGED <<avars, pure, fvars, cvars>>

\* ------------------------------------------------------ exception handling
\* An exception reaches the frame on top.  The try of _api_request (196-215)
\* covers the refresh of line 203, the try of _refresh_access_token (150-160)
\* covers _get_user_info; every other frame lets the exception through.
Propagate ==
    /\ exc
    /\ stack # <<>>
    /\ CASE Top.fn = "_api_request" /\ Top.pc = "retry" ->
              /\ exc' = FALSE
              /\ Return(RNone)
         [] Top.fn = "_refresh_access_token" /\ Top.pc = "after_user_info" ->
              /\ exc' = FALSE
              /\ Call([Top EXCEPT !.pc = "tail"], Frame("_login", "start"))
              /\ UNCHANGED <<ret, op>>
         [] OTHER ->
              /\ Unwind
              /\ UNCHANGED ret
    /\ UNCHANGED <<_session, _access_token, _refresh_token, _token_expires, _account_id,
                   _username, _password, _devices, now, vendorN, faults, log>>
    /\ UNCHANGED <<avars, pure, fvars, cvars>>

\* ---------------------------------------------------- connect, disconnect
\* lines 63-72, for the given (username, password) pairs and refresh tokens
ConnectWith(credentials, refresh_tokens) ==
    /\ \E c \in credentials, rt \in refresh_tokens :
        /\ _username' = c[1]
        /\ _password' = c[2]
        /\ IF rt # None
           THEN /\ Begin("connect", [username |-> c[1], refresh_token |-> rt])
                /\ stack' = <<Frame("connect", "tail"),
                              [Frame("_restore_session", "start") EXCEPT !.arg = rt]>>
           ELSE IF c[1] = None \/ c[2] = None
           THEN /\ Raise("connect", [username |-> c[1], refresh_token |-> rt], "ValueError")
                /\ UNCHANGED stack
           ELSE /\ Begin("connect", [username |-> c[1], refresh_token |-> rt])
                /\ stack' = <<Frame("connect", "tail"), Frame("_login", "start")>>
    /\ UNCHANGED <<_session, _access_token, _refresh_token, _token_expires, _account_id,
                   _devices, now, vendorN, faults, ret, exc>>
    /\ UNCHANGED <<avars, pure, fvars, cvars>>

connect == ConnectWith(Credentials, {None} \cup SuppliedRefreshTokens)

\* connect(username, password)
connect_password == ConnectWith({<<1, 1>>}, {None})

\* lines 67 and 72: return await ...
connect_tail == ReturnTail("connect")

\* lines 135-137
_restore_session ==
    /\ Running("_restore_session", "start")
    /\ _session' = TRUE
    /\ _refresh_token' = Top.arg
    /\ Call([Top EXCEPT !.pc = "tail"], Frame("_refresh_access_token", "start"))
    /\ log' = Append(log, RefreshEv("restore"))
    /\ UNCHANGED <<_access_token, _token_expires, _account_id, _username, _password,
                   _devices, now, vendorN, faults, ret, exc, op>>
    /\ UNCHANGED <<avars, pure, fvars, cvars>>

_restore_session_tail == ReturnTail("_restore_session")

\* lines 221-225
disconnect ==
    /\ Idle
    /\ op' = OpRecord("disconnect", None, "returned", RNone)
    /\ log' = <<>>
    /\ _session' = FALSE
    /\ _access_token' = None
    /\ _refresh_token' = None
    /\ UNCHANGED <<_token_expires, _account_id, _username, _password, _devices,
                   now, vendorN, faults, stack, ret, exc>>
    /\ UNCHANGED <<avars, pure, fvars, cvars>>

\* lines 221-225 in another task, while an operation of this adapter waits in
\* run_in_executor: disconnect has no await, so it runs as one step.  A
\* disconnect that follows a disconnect at once finds nothing left to clear.
DisconnectEv == [ev |-> "disconnect"]

disconnect_in_flight ==
    /\ Suspended
    /\ log[Len(log)] # DisconnectEv
    /\ log' = Append(log, DisconnectEv)
    /\ _session' = FALSE
    /\ _access_token' = None
    /\ _refresh_token' = None
    /\ UNCHANGED <<_token_expires, _account_id, _username, _password, _devices,
                   now, vendorN, faults, stack, ret, exc, op>>
    /\ UNCHANGED <<avars, pure, fvars, cvars>>

\* -------------------------------------------------------- _parse_location
Scale == 100000          \* a float is a fixed-point number, counted in 1/Scale
KmhPerMile == 160934     \* 1.60934 * Scale

\* float(x) of an optional integer: the fixed-point number, None stays None
Float(x) == IF x = None THEN None ELSE x * Scale

\* ParseSpeed with the unit defaulting to mph
ParseSpeedDefaultMph(speed, speed_unit) ==
    LET unit == IF speed_unit = Absent THEN "mph" ELSE speed_unit
    IN  IF speed = None THEN None
        ELSE IF speed # 0 /\ unit = "mph" THEN speed * KmhPerMile
        ELSE speed * Scale

\* lines 315-318: the unit defaults to kph; a truthy mph speed is converted
ParseSpeed(speed, speed_unit) ==
    LET unit == IF speed_unit = Absent THEN "kph" ELSE speed_unit
    IN  IF speed = None THEN None
        ELSE IF speed # 0 /\ unit = "mph" THEN speed * KmhPerMile
        ELSE speed * Scale

\* lines 309-313: the timestamp in milliseconds, from "time" (s) or "updated" (ms)
ParseTime(data) ==
    IF data.time # None THEN data.time * 1000
    ELSE IF data.updated # None THEN data.updated
    ELSE None

\* lines 307-333
_parse_location(device_id, data) ==
    [k |-> "loc", device_id |-> device_id, provider |-> "trackimo",
     latitude |-> Float(data.lat), longitude |-> Float(data.lng),
     altitude |-> Float(data.altitude),
     speed |-> ParseSpeed(data.speed, data.speed_unit),
     course |-> None, battery |-> data.battery, timestamp |-> ParseTime(data),
     address |-> Absent, odometer |-> None,
     is_moving |-> (data.moving = 1),
     is_gps_fix |-> (data.gps # 0),
     hdop |-> Float(data.hdop)]

\* ------------------------------------------------------------ get_devices
\* _ensure_authenticated testing the token instead of the account id
_ensure_authenticated_token == _access_token # None

\* lines 227-230: FALSE stands for the RuntimeError
_ensure_authenticated == _account_id # None

\* get_devices that empties the registry before it lists
get_devices_fresh ==
    /\ IF _ensure_authenticated
       THEN /\ Begin("get_devices", None)
            /\ stack' = <<[Frame("get_devices", "got_page") EXCEPT !.page = 1],
                          ApiFrame("devices", 1, FALSE)>>
            /\ _devices' = <<>>
       ELSE /\ Raise("get_devices", None, "RuntimeError")
            /\ UNCHANGED <<stack, _devices>>
    /\ UNCHANGED <<_session, _access_token, _refresh_token, _token_expires, _account_id,
                   _username, _password, now, vendorN, faults, ret, exc>>
    /\ UNCHANGED <<avars, pure, fvars, cvars>>

\* lines 234-245
get_devices ==
    /\ IF _ensure_authenticated
       THEN /\ Begin("get_devices", None)
            /\ stack' = <<[Frame("get_devices", "got_page") EXCEPT !.page = 1],
                          ApiFrame("devices", 1, FALSE)>>
       ELSE /\ Raise("get_devices", None, "RuntimeError")
            /\ UNCHANGED stack
    /\ UNCHANGED <<_session, _access_token, _refresh_token, _token_expires, _account_id,
                   _username, _password, _devices, now, vendorN, faults, ret, exc>>
    /\ UNCHANGED <<avars, pure, fvars, cvars>>

FetchFrame == Frame("_fetch_all_locations", "start")

\* lines 247-250 on a listing response
get_devices_got_page ==
    /\ Running("get_devices", "got_page")
    /\ IF ~Truthy(ret)
       THEN Call([Top EXCEPT !.pc = "ret"], FetchFrame)
       ELSE Goto([Top EXCEPT !.pc = "loop", !.data = ret, !.idx = 1])
    /\ UNCHANGED <<_session, _access_token, _refresh_token, _token_expires, _account_id,
                   _username, _password, _devices, now, vendorN, faults, ret, exc, op, log>>
    /\ UNCHANGED <<avars, pure, fvars, cvars>>

\* get_devices stopping after a page of limit items (<= for < in line 256)
get_devices_loop_short ==
    /\ Running("get_devices", "loop")
    /\ LET items == Top.data.items
       IN  IF Top.idx <= Len(items)
           THEN Call([Top EXCEPT !.pc = "parsed"],
                     [Frame("_parse_device", "start") EXCEPT !.arg = items[Top.idx]])
           ELSE Call([Top EXCEPT !.pc = "ret"], FetchFrame)
    /\ UNCHANGED <<_session, _access_token, _refresh_token, _token_expires, _account_id,
                   _username, _password, _devices, now, vendorN, faults, ret, exc, op, log>>
    /\ UNCHANGED <<avars, pure, fvars, cvars>>

\* lines 250-251 and 256-261: the next item, the next page or the locations
get_devices_loop ==
    /\ Running("get_devices", "loop")
    /\ LET items == Top.data.items
       IN  IF Top.idx <= Len(items)
           THEN Call([Top EXCEPT !.pc = "parsed"],
                     [Frame("_parse_device", "start") EXCEPT !.arg = items[Top.idx]])
           ELSE IF Len(items) < limit
           THEN Call([Top EXCEPT !.pc = "ret"], FetchFrame)
           ELSE Call([Top EXCEPT !.pc = "got_page", !.page = Top.page + 1],
                     ApiFrame("devices", Top.page + 1, FALSE))
    /\ UNCHANGED <<_session, _access_token, _refresh_token, _token_expires, _account_id,
                   _username, _password, _devices, now, vendorN, faults, ret, exc, op, log>>
    /\ UNCHANGED <<avars, pure, fvars, cvars>>

\* get_devices keeping the last_location of a device it knows already
get_devices_parsed_merge ==
    /\ Running("get_devices", "parsed")
    /\ _devices' = IF ret.k = "device"
                   THEN [i \in DOMAIN _devices \cup {ret.device_id} |->
                            IF i # ret.device_id THEN _devices[i]
                            ELSE IF i \in DOMAIN _devices
                            THEN [ret EXCEPT !.last_location = _devices[i].last_location]
                            ELSE ret]
                   ELSE _devices
    /\ Goto([Top EXCEPT !.pc = "loop", !.idx = Top.idx + 1])
    /\ UNCHANGED <<_session, _access_token, _refresh_token, _token_expires, _account_id,
                   _username, _password, now, vendorN, faults, ret, exc, op, log>>
    /\ UNCHANGED <<avars, pure, fvars, cvars>>

\* lines 252-254: register the parsed device
get_devices_parsed ==
    /\ Running("get_devices", "parsed")
    /\ _devices' = IF ret.k = "device"
                   THEN [i \in DOMAIN _devices \cup {ret.device_id} |->
                            IF i = ret.device_id THEN ret ELSE _devices[i]]
                   ELSE _devices
    /\ Goto([Top EXCEPT !.pc = "loop", !.idx = Top.idx + 1])
    /\ UNCHANGED <<_session, _access_token, _refresh_token, _token_expires, _account_id,
                   _username, _password, now, vendorN, faults, ret, exc, op, log>>
    /\ UNCHANGED <<avars, pure, fvars, cvars>>

\* line 263: the whole registry is returned
get_devices_return ==
    /\ Running("get_devices", "ret")
    /\ Return([k |-> "devices", devices |-> _devices])
    /\ UNCHANGED <<_session, _access_token, _refresh_token, _token_expires, _account_id,
                   _username, _password, _devices, now, vendorN, faults, exc, log>>
    /\ UNCHANGED <<avars, pure, fvars, cvars>>

\* lines 267-275: an item without a truthy deviceId is skipped
_parse_device_start ==
    /\ Running("_parse_device", "start")
    /\ IF Top.arg = 0
       THEN Return(RNone)
       ELSE /\ Call([Top EXCEPT !.pc = "got"], ApiFrame("device", Top.arg, FALSE))
            /\ UNCHANGED <<ret, op>>
    /\ UNCHANGED <<_session, _access_token, _refresh_token, _token_expires, _account_id,
                   _username, _password, _devices, now, vendorN, faults, exc, log>>
    /\ UNCHANGED <<avars, pure, fvars, cvars>>

\* lines 277-285
_parse_device_got ==
    /\ Running("_parse_device", "got")
    /\ Return([k |-> "device", device_id |-> Top.arg, provider |-> "trackimo",
               name |-> IF Truthy(ret) THEN ret.name ELSE None,
               imsi |-> IF Truthy(ret) THEN ret.imsi ELSE None,
               status |-> IF Truthy(ret) THEN ret.status ELSE None,
               device_type |-> IF Truthy(ret) THEN ret.type ELSE None,
               last_location |-> RNone])
    /\ UNCHANGED <<_session, _access_token, _refresh_token, _token_expires, _account_id,
                   _username, _password, _devices, now, vendorN, faults, exc, log>>
    /\ UNCHANGED <<avars, pure, fvars, cvars>>

\* lines 289-298: one request naming every registered device
_fetch_all_locations_start ==
    /\ Running("_fetch_all_locations", "start")
    /\ IF DOMAIN _devices = {}
       THEN Return(RNone)
       ELSE /\ Call([Top EXCEPT !.pc = "got"],
                    ApiFrame("locations/filter", DOMAIN _devices, FALSE))
            /\ UNCHANGED <<ret, op>>
    /\ UNCHANGED <<_session, _access_token, _refresh_token, _token_expires, _account_id,
                   _username, _password, _devices, now, vendorN, faults, exc, log>>
    /\ UNCHANGED <<avars, pure, fvars, cvars>>

\* the last row of rows that is about device d, 0 if there is none
LastRow(rows, d) ==
    LET js == {j \in 1..Len(rows) : rows[j].device_id = d}
    IN  IF js = {} THEN 0 ELSE CHOOSE j \in js : \A i \in js : i <= j

\* lines 300-305
_fetch_all_locations_got ==
    /\ Running("_fetch_all_locations", "got")
    /\ _devices' = IF Truthy(ret)
                   THEN [d \in DOMAIN _devices |->
                           IF LastRow(ret.items, d) = 0 THEN _devices[d]
                           ELSE [_devices[d] EXCEPT !.last_location =
                                    _parse_location(d, ret.items[LastRow(ret.items, d)])]]
                   ELSE _devices
    /\ Return(RNone)
    /\ UNCHANGED <<_session, _access_token, _refresh_token, _token_expires, _account_id,
                   _username, _password, now, vendorN, faults, exc, log>>
    /\ UNCHANGED <<avars, pure, fvars, cvars>>

\* ------------------------------------------------ the single-call operations
\* an operation that checks the account id and then sends one request
SingleCall(name, arg, ep, reqarg) ==
    /\ IF _ensure_authenticated
       THEN /\ Begin(name, arg)
            /\ stack' = <<Frame(name, "got"), ApiFrame(ep, reqarg, FALSE)>>
       ELSE /\ Raise(name, arg, "RuntimeError")
            /\ UNCHANGED stack
    /\ UNCHANGED <<_session, _access_token, _refresh_token, _token_expires, _account_id,
                   _username, _password, _devices, now, vendorN, faults, ret, exc>>
    /\ UNCHANGED <<avars, pure, fvars, cvars>>

\* the operation returns v
SingleReturn(name, v) ==
    /\ Running(name, "got")
    /\ Return(v)
    /\ UNCHANGED <<_session, _access_token, _refresh_token, _token_expires, _account_id,
                   _username, _password, _devices, now, vendorN, faults, exc, log>>
    /\ UNCHANGED <<avars, pure, fvars, cvars>>

\* lines 337-342
get_device_location ==
    \E d \in DeviceArgs : SingleCall("get_device_location", d, "location", d)

\* lines 344-346
get_device_location_got ==
    SingleReturn("get_device_location",
                 IF Truthy(ret) THEN _parse_location(op.arg, ret) ELSE RNone)

Day == 86400                    \* timedelta(hours=24), seconds
HistoryWindows == {<<None, None>>, <<5, 9>>}    \* (start_date, end_date) arguments

\* get_device_history whose missing start is the end of the window
get_device_history_no_start ==
    \E d \in DeviceArgs, w \in HistoryWindows :
        LET end_date == IF w[2] = None THEN now ELSE w[2]
            start_date == IF w[1] = None THEN end_date ELSE w[1]
        IN  SingleCall("get_device_history",
                       [id |-> d, start_date |-> w[1], end_date |-> w[2]],
                       "history",
                       [id |-> d, from |-> start_date, to |-> end_date])

\* lines 357-375: a missing start is now - 24 h, a missing end is now
get_device_history ==
    \E d \in DeviceArgs, w \in HistoryWindows :
        LET start_date == IF w[1] = None THEN now - Day ELSE w[1]
            end_date == IF w[2] = None THEN now ELSE w[2]
        IN  SingleCall("get_device_history",
                       [id |-> d, start_date |-> w[1], end_date |-> w[2]],
                       "history",
                       [id |-> d, from |-> start_date, to |-> end_date])

\* lines 377-382
get_device_history_got ==
    SingleReturn("get_device_history",
                 [k |-> "locs",
                  items |-> IF Truthy(ret)
                            THEN [i \in 1..Len(ret.items) |->
                                    _parse_location(op.arg.id, ret.items[i])]
                            ELSE <<>>])

\* lines 386-392
send_beep ==
    \E d \in DeviceArgs : SingleCall("send_beep", d, "ops/beep", d)

\* line 393: data is not None
send_beep_got == SingleReturn("send_beep", RBool(ret.k # "none"))

\* lines 397-403
request_location ==
    \E d \in DeviceArgs : SingleCall("request_location", d, "ops/getLocation", d)

\* line 404
request_location_got == SingleReturn("request_location", RBool(ret.k # "none"))

\* ------------------------------------------------------------ environment
\* the clock advances while the task is suspended or no operation runs
Tick ==
    /\ Idle \/ Suspended
    /\ now < MaxTime
    /\ now' = now + 1
    /\ UNCHANGED <<_session, _access_token, _refresh_token, _token_expires, _account_id,
                   _username, _password, _devices, vendorN, faults, stack, ret, exc, op, log>>
    /\ UNCHANGED <<avars, pure, fvars, cvars>>

\* between two operations the vendor's device list changes
VendorChange(counts) ==
    /\ Idle
    /\ vendorN' \in counts \ {vendorN}
    /\ UNCHANGED <<_session, _access_token, _refresh_token, _token_expires, _account_id,
                   _username, _password, _devices, now, faults, stack, ret, exc, op, log>>
    /\ UNCHANGED <<avars, pure, fvars, cvars>>

\* ================================================================ Arvento
\* ArventoParser (src/src/parsers/arvento_parser.py).  A public operation is
\* one action: the vendor's answers to its SOAP calls are chosen when it runs.
Plates == {"34ABC123", "35XYZ789", "06XYZ000"}     \* license plates passed in
NodeArgs == {"NODE001", "NODE002", "NODE404"}      \* node ids passed in
VehicleNames == {Absent, "Truck"}                  \* add_vehicle: name

\* values are records tagged by k: a string ("str"), a number ("num"), the
\* text of a number ("numtext"), a point in time (a datetime or its ISO
\* text), a dict, an object of the rich SOAP client
RStr(s) == [k |-> "str", v |-> s]
RTime(ms) == [k |-> "time", v |-> ms]
RDict(items) == [k |-> "dict", items |-> items]
RObject(attrs) == [k |-> "zeep", attrs |-> attrs]

\* Python truthiness of such a value
ATruthy(v) ==
    IF v.k = "none" THEN FALSE
    ELSE IF v.k = "str" THEN v.v # ""
    ELSE IF v.k = "num" THEN v.v # 0
    ELSE IF v.k = "dict" THEN DOMAIN v.items # {}
    ELSE TRUE

\* a dict as a sequence of (key, value) pairs, in insertion order
Keys(d) == {d[i][1] : i \in DOMAIN d}
Lookup(d, key) == d[CHOOSE i \in DOMAIN d : d[i][1] = key][2]

\* {**b, **a}: the keys of b first
Merge_swapped(a, b) ==
    [i \in DOMAIN b |-> IF b[i][1] \in Keys(a) THEN <<b[i][1], Lookup(a, b[i][1])>> ELSE b[i]]
        \o SelectSeq(a, LAMBDA p : p[1] \notin Keys(b))

\* {**a, **b}
Merge(a, b) ==
    [i \in DOMAIN a |-> IF a[i][1] \in Keys(b) THEN <<a[i][1], Lookup(b, a[i][1])>> ELSE a[i]]
        \o SelectSeq(b, LAMBDA p : p[1] \notin Keys(a))

\* lines 105-111, with the values the adapter was constructed with
_get_auth_params == <<<<"Username", "user">>, <<"PIN1", "pin1">>, <<"PIN2", "pin2">>>>

\* ------------------------------------------------------ the Arvento vendor
\* the node the vendor holds for a plate
VendorNode(plate) ==
    IF plate = "34ABC123" THEN RStr("NODE001")
    ELSE IF plate = "35XYZ789" THEN RStr("NODE002")
    ELSE RNone

PacketFields == <<"strNode", "dtGMTDateTime", "dLatitude", "dLongitude", "dSpeed",
                  "strAddress", "nCourse", "dOdometer", "nAltitude">>

\* the last packets the vendor may hold for a node: a full one, and one at
\* latitude and longitude zero without the optional fields.  A number is a
\* float on the rich client's path (kind "num") and the text of an XML element
\* on the hand-built path (kind "numtext")
VendorPackets(node, kind) ==
    IF node = "NODE404" THEN {}
    ELSE { [f \in {"strNode", "dtGMTDateTime", "dLatitude", "dLongitude", "dSpeed",
                   "strAddress", "nCourse", "dOdometer", "nAltitude"} |->
              IF f = "strNode" THEN RStr(node)
              ELSE IF f = "dtGMTDateTime" THEN RTime(1000)
              ELSE IF f = "strAddress" THEN RStr("Ankara")
              ELSE [k |-> kind,
                    v |-> IF f = "dLatitude" THEN 41 * Scale
                          ELSE IF f = "dLongitude" THEN 29 * Scale
                          ELSE IF f = "dSpeed" THEN 50 * Scale
                          ELSE IF f = "nCourse" THEN 90
                          ELSE IF f = "dOdometer" THEN 1200
                          ELSE 850]],
           [f \in {"strNode", "dLatitude", "dLongitude", "dSpeed"} |->
              IF f = "strNode" THEN RStr(node) ELSE [k |-> kind, v |-> 0]] }

\* answers of the rich client: None, or the response object
ZeepResults(method, params) ==
    IF method = "GetNodeFromLicensePlate"
    THEN {RNone,
          RObject("GetNodeFromLicensePlateResult" :> VendorNode(Lookup(params, "LicensePlate")))}
    ELSE {RNone} \cup
         { RObject("GetVehicleStatusByNodeV3Result" :> RObject("LastPacket" :> RObject(p))) :
             p \in VendorPackets(Lookup(params, "Node"), "num") }

\* an XML element
Element(ns, name, text, children) ==
    [tag |-> [ns |-> ns, name |-> name], text |-> text, children |-> children]

SoapEnvelope(method, result) ==
    Element("soap", "Envelope", RNone,
        <<Element("soap", "Body", RNone,
            <<Element("", IF method = "GetNodeFromLicensePlate"
                          THEN "GetNodeFromLicensePlateResponse"
                          ELSE "GetVehicleStatusByNodeV3Response", RNone, <<result>>)>>)>>)

\* the documents the vendor answers with
VendorDocuments(method, params) ==
    IF method = "GetNodeFromLicensePlate"
    THEN {SoapEnvelope(method,
            Element("", "GetNodeFromLicensePlateResult",
                    VendorNode(Lookup(params, "LicensePlate")), <<>>))}
    ELSE {SoapEnvelope(method, Element("", "GetVehicleStatusByNodeV3Result", RNone, <<>>))}
         \cup
         { SoapEnvelope(method,
             Element("", "GetVehicleStatusByNodeV3Result", RNone,
               <<Element("", "LastPacket", RNone,
                   [i \in 1..Len(SelectSeq(PacketFields, LAMBDA f : f \in DOMAIN p)) |->
                       LET f == SelectSeq(PacketFields, LAMBDA g : g \in DOMAIN p)[i]
                       IN  Element("", f, p[f], <<>>)])>>)) :
             p \in VendorPackets(Lookup(params, "Node"), "numtext") }

\* responses to the hand-built request: status 0 stands for a POST that raises
VendorHttp(method, params) ==
    {[status |-> 0, root |-> RNone], [status |-> 500, root |-> RNone]}
    \cup {[status |-> 200, root |-> d] : d \in VendorDocuments(method, params)}

\* ------------------------------------------------------- _parse_soap_response
\* lines 178-180: the namespace prefixes are removed from the tags
RECURSIVE StripNs(_)
StripNs(e) ==
    [tag |-> e.tag.name, text |-> e.text,
     children |-> [i \in DOMAIN e.children |-> StripNs(e.children[i])]]

\* root.iter(): the elements in document order
RECURSIVE Iter(_)
Iter(e) ==
    LET RECURSIVE Below(_)
        Below(n) == IF n = 0 THEN <<>> ELSE Below(n - 1) \o Iter(e.children[n])
    IN  <<e>> \o Below(Len(e.children))

\* lines 200-209: a child that has children becomes a dict, a leaf its text;
\* a later child replaces an earlier one of the same tag
RECURSIVE _element_to_dict(_)
_element_to_dict(element) ==
    LET RECURSIVE Upto(_)
        Upto(n) ==
            IF n = 0 THEN <<>>
            ELSE LET child == element.children[n]
                 IN  (child.tag :> (IF Len(child.children) > 0
                                    THEN _element_to_dict(child)
                                    ELSE child.text)) @@ Upto(n - 1)
    IN  RDict(Upto(Len(element.children)))

\* f"{method}Result"
ResultTag(method) ==
    IF method = "GetNodeFromLicensePlate" THEN "GetNodeFromLicensePlateResult"
    ELSE "GetVehicleStatusByNodeV3Result"

\* "sub in tag": no tag of the vendor's documents properly contains another
TagContains(sub, tag) == tag = sub

\* lines 173-198: the first element whose tag contains the result tag, else
\* the first LastPacket element, else None
_parse_soap_response(xml, method) ==
    LET elems == Iter(StripNs(xml))
        results == SelectSeq(elems, LAMBDA e : TagContains(ResultTag(method), e.tag))
        packets == SelectSeq(elems, LAMBDA e : TagContains("LastPacket", e.tag))
    IN  IF results # <<>> THEN _element_to_dict(results[1])
        ELSE IF packets # <<>> THEN _element_to_dict(packets[1])
        ELSE RNone

\* a network call: the rich client's fetch of the WSDL, a call through the
\* client, or a POST of the hand-built envelope
NetCall(via, method, params) == [via |-> via, method |-> method, params |-> params]

\* a network call together with what the vendor answered
Answered(call, answer) ==
    [via |-> call.via, method |-> call.method, params |-> call.params, answer |-> answer]

\* lines 159-171 of _basic_soap_request: the outcomes of the POST, each the
\* vendor's answer and the value returned for it
_basic_soap_request(method, params) ==
    { [answer |-> r,
       result |-> IF r.status = 200 THEN _parse_soap_response(r.root, method) ELSE RNone] :
        r \in VendorHttp(method, params) }

\* _soap_request that does not test the offline flag
_soap_request_online(method, params) ==
    LET full_params == Merge(_get_auth_params, params)
    IN  IF ZEEP_AVAILABLE /\ a_client
        THEN { [result |-> r, io |-> <<NetCall("zeep", method, full_params)>>] :
                 r \in ZeepResults(method, full_params) }
        ELSE { [result |-> o.result,
                io |-> <<Answered(NetCall("http", method, full_params), o.answer)>>] :
                 o \in _basic_soap_request(method, full_params) }

\* lines 113-133: the outcomes of a SOAP request, each with its network calls
_soap_request(method, params) ==
    LET full_params == Merge(_get_auth_params, params)
    IN  IF a_offline
        THEN {[result |-> RNone, io |-> <<>>]}
        ELSE IF ZEEP_AVAILABLE /\ a_client
        THEN { [result |-> r, io |-> <<NetCall("zeep", method, full_params)>>] :
                 r \in ZeepResults(method, full_params) }
        ELSE { [result |-> o.result,
                io |-> <<Answered(NetCall("http", method, full_params), o.answer)>>] :
                 o \in _basic_soap_request(method, full_params) }

\* ---------------------------------------------------- _parse_vehicle_status
\* lines 262-266
_safe_get(obj, key, default) ==
    IF obj.k = "dict" THEN (IF key \in DOMAIN obj.items THEN obj.items[key] ELSE default)
    ELSE IF obj.k = "zeep" THEN (IF key \in DOMAIN obj.attrs THEN obj.attrs[key] ELSE default)
    ELSE default

\* float(x) and int(x) of a number or of the text of a number
Number(x) == x.v

\* float(x or 0), int(x or 0)
NumberOrZero(x) == IF ATruthy(x) THEN Number(x) ELSE 0

\* lines 259-314
_parse_vehicle_status(node, data) ==
    LET packet ==
            IF data.k = "zeep" /\ "GetVehicleStatusByNodeV3Result" \in DOMAIN data.attrs
            THEN data.attrs["GetVehicleStatusByNodeV3Result"].attrs["LastPacket"]
            ELSE IF data.k = "dict" /\ "LastPacket" \in DOMAIN data.items
            THEN data.items["LastPacket"]
            ELSE data
        dt == _safe_get(packet, "dtGMTDateTime", RStr(""))
        lat == _safe_get(packet, "dLatitude", RNone)
        lng == _safe_get(packet, "dLongitude", RNone)
        address == _safe_get(packet, "strAddress", RNone)
    IN  [k |-> "loc", device_id |-> node, provider |-> "arvento",
         latitude |-> IF ATruthy(lat) THEN Number(lat) ELSE None,
         longitude |-> IF ATruthy(lng) THEN Number(lng) ELSE None,
         altitude |-> NumberOrZero(_safe_get(packet, "nAltitude", RNone)),
         speed |-> NumberOrZero(_safe_get(packet, "dSpeed", RNone)),
         course |-> NumberOrZero(_safe_get(packet, "nCourse", RNone)),
         battery |-> None,
         timestamp |-> IF dt.k = "time" THEN dt.v ELSE None,
         address |-> IF address.k = "str" THEN address.v ELSE Absent,
         odometer |-> NumberOrZero(_safe_get(packet, "dOdometer", RNone)),
         is_moving |-> NumberOrZero(_safe_get(packet, "dSpeed", RNone)) > 0,
         is_gps_fix |-> TRUE,
         hdop |-> None]

\* --------------------------------------------------------- _load_mock_data
\* lines 392-419; the timestamps are 3 and 7 minutes before the load, the
\* odometers whole kilometres, the addresses in ASCII
sample_locations ==
    [node \in {"NODE001", "NODE002"} |->
        [k |-> "loc", device_id |-> node, provider |-> "arvento",
         latitude |-> IF node = "NODE001" THEN 4097800 ELSE 3842370,
         longitude |-> IF node = "NODE001" THEN 2909200 ELSE 2714280,
         altitude |-> None,
         speed |-> IF node = "NODE001" THEN 1230000 ELSE 0,
         course |-> IF node = "NODE001" THEN 45 ELSE 0,
         battery |-> None,
         timestamp |-> (now - (IF node = "NODE001" THEN 3 ELSE 7) * 60) * 1000,
         address |-> IF node = "NODE001" THEN "Istanbul, Turkiye" ELSE "Izmir, Turkiye",
         odometer |-> IF node = "NODE001" THEN 25010 ELSE 10200,
         is_moving |-> node = "NODE001",
         is_gps_fix |-> TRUE,
         hdop |-> None]]

ArventoDevice(node, name, last_location) ==
    [k |-> "device", device_id |-> node, provider |-> "arvento", name |-> name,
     imsi |-> Absent, status |-> "active", device_type |-> Absent,
     last_location |-> last_location]

\* lines 389-436
_load_mock_data ==
    /\ a_mock_nodes' = ("34ABC123" :> "NODE001") @@ ("35XYZ789" :> "NODE002")
    /\ a_mock_locations' = sample_locations
    /\ a_devices' = [node \in DOMAIN sample_locations |->
                        ArventoDevice(node, IF node = "NODE001" THEN "Mock Vehicle NODE001"
                                            ELSE "Mock Vehicle NODE002",
                                      sample_locations[node])] @@ a_devices

\* ------------------------------------------------------- public operations
\* the record of a public operation of the Arvento adapter: what was called,
\* what it returned, and the registry when it was called
ArventoOp(name, plate, node, result) ==
    [name |-> name, plate |-> plate, node |-> node, result |-> result,
     devices0 |-> a_devices]

ArventoReturn(name, plate, node, result, io) ==
    /\ a_op' = ArventoOp(name, plate, node, result)
    /\ a_log' = io

\* lines 211-234: the outcomes of a plate resolution
get_node_from_license_plate(license_plate) ==
    { [value |-> IF a_offline
                 THEN (IF license_plate \in DOMAIN a_mock_nodes
                       THEN RStr(a_mock_nodes[license_plate]) ELSE RNone)
                 ELSE IF ATruthy(o.result)
                 THEN _safe_get(o.result, "GetNodeFromLicensePlateResult", RNone)
                 ELSE RNone,
       io |-> o.io] :
      o \in _soap_request("GetNodeFromLicensePlate", <<<<"LicensePlate", license_plate>>>>) }

\* lines 236-257: the outcomes of a status request
get_vehicle_status(node) ==
    { [value |-> IF a_offline
                 THEN (IF node \in DOMAIN a_mock_locations
                       THEN a_mock_locations[node] ELSE RNone)
                 ELSE IF ATruthy(o.result)
                 THEN _parse_vehicle_status(node, o.result)
                 ELSE RNone,
       io |-> o.io] :
      o \in _soap_request("GetVehicleStatusByNodeV3",
                          <<<<"Node", node>>, <<"Language", "0">>>>) }

\* lines 69-98
a_connect ==
    /\ \/ /\ a_offline
          /\ a_connected' = TRUE
          /\ _load_mock_data
          /\ ArventoReturn("connect", Absent, Absent, RBool(TRUE), <<>>)
          /\ UNCHANGED a_client
       \/ /\ ~a_offline
          /\ ZEEP_AVAILABLE
          /\ \E created \in BOOLEAN :
                /\ a_client' = IF created THEN TRUE ELSE a_client
                /\ a_connected' = IF created THEN TRUE ELSE a_connected
                /\ ArventoReturn("connect", Absent, Absent, RBool(created),
                                 <<NetCall("wsdl", "Client", <<>>)>>)
          /\ UNCHANGED <<a_mock_nodes, a_mock_locations, a_devices>>
       \/ /\ ~a_offline
          /\ ~ZEEP_AVAILABLE
          /\ a_connected' = TRUE
          /\ ArventoReturn("connect", Absent, Absent, RBool(TRUE), <<>>)
          /\ UNCHANGED <<a_client, a_mock_nodes, a_mock_locations, a_devices>>
    /\ UNCHANGED <<a_offline, ZEEP_AVAILABLE, tvars, pure, cvars>>

\* lines 100-103
a_disconnect ==
    /\ a_client' = FALSE
    /\ a_connected' = FALSE
    /\ ArventoReturn("disconnect", Absent, Absent, RNone, <<>>)
    /\ UNCHANGED <<a_offline, a_mock_nodes, a_mock_locations, a_devices,
                   ZEEP_AVAILABLE, tvars, pure, cvars>>

\* an operation that changes nothing of the adapter
ArventoQuery(name, plate, node, outcomes) ==
    /\ \E o \in outcomes : ArventoReturn(name, plate, node, o.value, o.io)
    /\ UNCHANGED <<a_offline, a_connected, a_client, a_mock_nodes, a_mock_locations,
                   a_devices, ZEEP_AVAILABLE, tvars, pure, cvars>>

a_get_node_from_license_plate ==
    \E plate \in Plates :
        ArventoQuery("get_node_from_license_plate", plate, Absent,
                     get_node_from_license_plate(plate))

\* get_vehicle_status that registers the node whose status it found
a_get_vehicle_status_tracks ==
    \E node \in NodeArgs :
      \E o \in get_vehicle_status(node) :
        /\ ArventoReturn("get_vehicle_status", Absent, node, o.value, o.io)
        /\ a_devices' = IF o.value = RNone THEN a_devices
                        ELSE (node :> ArventoDevice(node, node, o.value)) @@ a_devices
        /\ UNCHANGED <<a_offline, a_connected, a_client, a_mock_nodes, a_mock_locations,
                       ZEEP_AVAILABLE, tvars, pure, cvars>>

\* lines 236-257
a_get_vehicle_status ==
    \E node \in NodeArgs :
        ArventoQuery("get_vehicle_status", Absent, node, get_vehicle_status(node))

\* lines 316-329
get_vehicle_by_plate(license_plate) ==
    UNION { IF ATruthy(n.value)
            THEN { [value |-> s.value, io |-> n.io \o s.io] :
                     s \in get_vehicle_status(n.value.v) }
            ELSE { [value |-> RNone, io |-> n.io] } :
            n \in get_node_from_license_plate(license_plate) }

a_get_vehicle_by_plate ==
    \E plate \in Plates :
        ArventoQuery("get_vehicle_by_plate", plate, Absent, get_vehicle_by_plate(plate))

\* lines 331-338
a_get_devices ==
    ArventoQuery("get_devices", Absent, Absent,
                 {[value |-> [k |-> "devices", devices |-> a_devices], io |-> <<>>]})

\* lines 370-372
a_get_device_location ==
    \E node \in NodeArgs :
        ArventoQuery("get_device_location", Absent, node, get_vehicle_status(node))

\* get_device_history that fetches the current status of the device
a_get_device_history_status ==
    \E node \in NodeArgs :
        ArventoQuery("get_device_history", Absent, node,
                     { [value |-> IF o.value = RNone THEN RList(<<>>)
                                  ELSE RList(<<o.value>>),
                        io |-> o.io] : o \in get_vehicle_status(node) })

\* lines 374-387: the arguments are not read
a_get_device_history ==
    \E node \in NodeArgs :
        ArventoQuery("get_device_history", Absent, node,
                     {[value |-> RList(<<>>), io |-> <<>>]})

\* add_vehicle that keeps the entry a node already has
add_vehicle_setdefault ==
    \E license_plate \in Plates, name \in VehicleNames :
      \E n \in get_node_from_license_plate(license_plate) :
        /\ IF ~ATruthy(n.value)
           THEN /\ ArventoReturn("add_vehicle", license_plate, Absent, RNone, n.io)
                /\ UNCHANGED a_devices
           ELSE \E s \in get_vehicle_status(n.value.v) :
                  LET node == n.value.v
                      device == ArventoDevice(node,
                                    IF name # Absent /\ name # "" THEN name
                                    ELSE license_plate, s.value)
                  IN  /\ a_devices' = a_devices @@ (node :> device)
                      /\ ArventoReturn("add_vehicle", license_plate, node, device,
                                       n.io \o s.io)
        /\ UNCHANGED <<a_offline, a_connected, a_client, a_mock_nodes, a_mock_locations,
                       ZEEP_AVAILABLE, tvars, pure, cvars>>

\* lines 340-368
add_vehicle ==
    \E license_plate \in Plates, name \in VehicleNames :
      \E n \in get_node_from_license_plate(license_plate) :
        /\ IF ~ATruthy(n.value)
           THEN /\ ArventoReturn("add_vehicle", license_plate, Absent, RNone, n.io)
                /\ UNCHANGED a_devices
           ELSE \E s \in get_vehicle_status(n.value.v) :
                  LET node == n.value.v
                      device == ArventoDevice(node,
                                    IF name # Absent /\ name # "" THEN name
                                    ELSE license_plate, s.value)
                  IN  /\ a_devices' = (node :> device) @@ a_devices
                      /\ ArventoReturn("add_vehicle", license_plate, node, device,
                                       n.io \o s.io)
        /\ UNCHANGED <<a_offline, a_connected, a_client, a_mock_nodes, a_mock_locations,
                       ZEEP_AVAILABLE, tvars, pure, cvars>>

\* ArventoParser.__init__ (lines 57-67) and BaseParser.__init__
ArventoInit(offline, zeep) ==
    /\ a_offline \in offline
    /\ a_connected = FALSE
    /\ a_client = FALSE
    /\ a_mock_nodes = <<>>
    /\ a_mock_locations = <<>>
    /\ a_devices = <<>>
    /\ ZEEP_AVAILABLE \in zeep
    /\ a_op = ArventoOp("__init__", Absent, Absent, RNone)
    /\ a_log = <<>>

\* ========================================================= pure functions
\* A pure function is applied to an input drawn from a bounded set: pure
\* holds the function, the input, and the output once it is computed.
MaxSpeed == 30      \* raw speeds run from 0 to MaxSpeed
MaxLen == 4         \* tokens of a parameter value
MaxHalfHours == 6   \* timestamps run from 0 to MaxHalfHours half-hours

RawSpeeds == {None} \cup 0..MaxSpeed
SpeedUnits == {Absent, "kph", "mph"}

\* a text is a sequence of tokens: the characters that matter to XML, and
\* tokens that stand for runs of other characters
ValueTokens == {"<", ">", "&", "/", ";", "amp", "LicensePlate"}
Values == UNION {[1..n -> ValueTokens] : n \in 0..MaxLen}
ValueKeys == {"Username", "LicensePlate"}

PureIdle == [fn |-> "", in |-> RNone, out |-> RNone, done |-> TRUE]

\* str.replace(old, new), old a single character
RECURSIVE replace(_, _, _)
replace(s, old, new) ==
    IF s = <<>> THEN <<>>
    ELSE (IF Head(s) = old THEN new ELSE <<Head(s)>>) \o replace(Tail(s), old, new)

\* escape that leaves the text as it is
escape_raw(data) == data

\* xml.sax.saxutils.escape, called at line 140: & first, then > and <
escape(data) ==
    replace(replace(replace(data, "&", <<"&", "amp", ";">>),
                    ">", <<"&", "gt", ";">>),
            "<", <<"&", "lt", ";">>)

\* line 140: one element per parameter, joined by newlines
RECURSIVE param_xml(_)
param_xml(params) ==
    IF params = <<>> THEN <<>>
    ELSE LET k == Head(params)[1]
             v == Head(params)[2]
         IN  <<"<", k, ">">> \o escape(v) \o <<"<", "/", k, ">">>
             \o (IF Len(params) > 1 THEN <<"\n">> ELSE <<>>)
             \o param_xml(Tail(params))

\* lines 142-150
soap_body(method, params) ==
    <<"<", "?xml", "?", ">", "\n",
      "<", "soap12:Envelope", ">", "\n",
      "<", "soap12:Body", ">", "\n",
      "<", "ns:", method, ">", "\n">>
    \o param_xml(params) \o
    <<"\n", "<", "/", "ns:", method, ">", "\n",
      "<", "/", "soap12:Body", ">", "\n",
      "<", "/", "soap12:Envelope", ">">>

\* the parameters of a plate resolution, each value a text, the one under key
\* replaced by value
TextParams(key, value) ==
    LET full_params == Merge(_get_auth_params, <<<<"LicensePlate", "a">>>>)
    IN  [i \in DOMAIN full_params |->
            <<full_params[i][1],
              IF full_params[i][1] = key THEN value ELSE <<full_params[i][2]>>>>]

\* _parse_location applied to a row with the given speed and unit flag
parse_location_step ==
    /\ pure.fn = "_parse_location"
    /\ ~pure.done
    /\ pure' = [pure EXCEPT
                  !.out = _parse_location(1, [VendorLocation(1) EXCEPT
                                                !.speed = pure.in.speed,
                                                !.speed_unit = pure.in.speed_unit]),
                  !.done = TRUE]
    /\ UNCHANGED <<tvars, avars, fvars, cvars>>

\* _basic_soap_request builds the envelope of a plate resolution
soap_body_step ==
    /\ pure.fn = "_basic_soap_request"
    /\ ~pure.done
    /\ pure' = [pure EXCEPT
                  !.out = soap_body("GetNodeFromLicensePlate",
                                    TextParams(pure.in.key, pure.in.value)),
                  !.done = TRUE]
    /\ UNCHANGED <<tvars, avars, fvars, cvars>>

\* the number the vendor holds in field f.  The level of a field says what
\* the vendor holds in it: nothing ("absent": the field is missing), an empty
\* field ("empty"), zero ("zero"), or a number other than zero ("value")
VendorNumber(f, level) ==
    IF level = "zero" THEN 0
    ELSE IF f = "dLatitude" THEN 41 * Scale
    ELSE IF f = "dLongitude" THEN 29 * Scale
    ELSE IF f = "dSpeed" THEN 50 * Scale
    ELSE IF f = "nCourse" THEN 90
    ELSE IF f = "dOdometer" THEN 1200
    ELSE 850

\* the status in one shape (the rich client's object "zeep", the mapping of
\* the Result element with its LastPacket "dict", the mapping of a LastPacket
\* element "flat"): latitude, longitude and the other numeric fields at the
\* given levels.  A number is a float in the rich client's object and
\* a text in a mapping; an empty field is None in both
StatusData(shape, lat, lng, rest) ==
    LET Level(f) == IF f = "dLatitude" THEN lat
                    ELSE IF f = "dLongitude" THEN lng
                    ELSE rest
        fields == {f \in {"dLatitude", "dLongitude", "dSpeed", "nCourse",
                          "dOdometer", "nAltitude"} : Level(f) # "absent"}
        packet == [f \in fields |->
                     IF Level(f) = "empty" THEN RNone
                     ELSE [k |-> IF shape = "zeep" THEN "num" ELSE "numtext",
                           v |-> VendorNumber(f, Level(f))]]
    IN  IF shape = "zeep"
        THEN RObject("GetVehicleStatusByNodeV3Result" :>
                        RObject("LastPacket" :> RObject(packet)))
        ELSE IF shape = "dict" THEN RDict("LastPacket" :> RDict(packet))
        ELSE RDict(packet)

\* _parse_vehicle_status applied to a status of NODE001
parse_vehicle_status_step ==
    /\ pure.fn = "_parse_vehicle_status"
    /\ ~pure.done
    /\ pure' = [pure EXCEPT
                  !.out = _parse_vehicle_status("NODE001",
                              StatusData(pure.in.shape, pure.in.lat, pure.in.lng,
                                         pure.in.rest)),
                  !.done = TRUE]
    /\ UNCHANGED <<tvars, avars, fvars, cvars>>

\* ------------------------------------------------------ GPSLocation.to_dict
\* datetime.fromtimestamp(t) of trackimo_parser.py lines 310-313 and
\* datetime.now() of arvento_parser.py line 391: the naive wall-clock time of
\* the server's zone.  Zone "UTC" has offset 0; zone "DST" is two hours ahead
\* of UTC until instant 7200, where its clocks go back one hour
fromtimestamp(t, zone) ==
    LET utcoffset == IF zone = "UTC" THEN 0
                     ELSE IF t < 7200 THEN 7200 ELSE 3600
    IN  [k |-> "datetime", wall |-> t + utcoffset]

\* datetime.isoformat() of a naive datetime: date, "T", hours, minutes and
\* seconds of the wall-clock time, and no offset
isoformat(dt) ==
    [k |-> "iso", date |-> dt.wall \div 86400,
     hour |-> (dt.wall % 86400) \div 3600,
     minute |-> (dt.wall % 3600) \div 60,
     second |-> dt.wall % 60]

\* models.py lines 36-52; provider is a member of GPSProvider (lines 11-14)
to_dict(self) ==
    [device_id |-> self.device_id,
     provider |-> IF self.provider = "TRACKIMO" THEN "trackimo" ELSE "arvento",
     latitude |-> self.latitude, longitude |-> self.longitude,
     altitude |-> self.altitude, speed |-> self.speed, course |-> self.course,
     battery |-> self.battery,
     timestamp |-> IF self.timestamp.k = "datetime" THEN isoformat(self.timestamp)
                   ELSE RNone,
     address |-> self.address, odometer |-> self.odometer,
     is_moving |-> self.is_moving, is_gps_fix |-> self.is_gps_fix,
     hdop |-> self.hdop]

\* to_dict of a location whose timestamp, if any, was made by fromtimestamp
to_dict_step ==
    /\ pure.fn = "to_dict"
    /\ ~pure.done
    /\ LET self == [_parse_location(1, VendorLocation(1)) EXCEPT
                      !.provider = pure.in.provider,
                      !.timestamp = IF pure.in.time = None THEN RNone
                                    ELSE fromtimestamp(pure.in.time, pure.in.zone)]
       IN  pure' = [pure EXCEPT !.out = to_dict([self @@ [raw_data |-> VendorLocation(1)]
                                                  EXCEPT !.k = "loc"]),
                                 !.done = TRUE]
    /\ UNCHANGED <<tvars, avars, fvars, cvars>>


\* ================================================================= facade
\* src/src/server.py.  A handler is one action: it looks the adapter up, calls
\* it and answers.  The adapter installed for "arvento" is the one the Arvento
\* variables describe; parsers holds its identity, a number that a newly
\* constructed adapter does not share with the one it replaces.
MaxAdapters == 2    \* identities of the adapters installed one over the other

\* the record of a handler: the response (status, detail of an error, body),
\* the calls made to adapters, the network calls, and the registry before
FacadeOp(handler, arg, status, detail, body, calls, io) ==
    [handler |-> handler, arg |-> arg, status |-> status, detail |-> detail,
     body |-> body, calls |-> calls, io |-> io, parsers0 |-> parsers]

\* raise HTTPException(status_code, detail) before any adapter is called
HTTPException(handler, arg, status_code, detail) ==
    /\ f_op' = FacadeOp(handler, arg, status_code, detail, RNone, <<>>, <<>>)
    /\ UNCHANGED <<parsers, tvars, avars, pure, cvars>>

\* lines 363-379: the model holds a timestamp as the instant, in milliseconds,
\* of a datetime of a server in UTC
_location_to_response(location) ==
    [device_id |-> location.device_id,
     provider |-> location.provider,
     latitude |-> location.latitude, longitude |-> location.longitude,
     altitude |-> location.altitude, speed |-> location.speed,
     course |-> location.course, battery |-> location.battery,
     timestamp |-> IF location.timestamp # None
                   THEN isoformat(fromtimestamp(location.timestamp \div 1000, "UTC"))
                   ELSE RNone,
     address |-> location.address, odometer |-> location.odometer,
     is_moving |-> location.is_moving, is_gps_fix |-> location.is_gps_fix]

\* lines 382-390
_device_to_response(device) ==
    [device_id |-> device.device_id,
     provider |-> device.provider,
     name |-> device.name,
     status |-> device.status,
     last_location |-> IF device.last_location.k = "loc"
                       THEN _location_to_response(device.last_location)
                       ELSE RNone]

\* lines 122-149.  TrackimoParser.__init__ (trackimo_parser.py line 38) has no
\* parameter offline: the construction of lines 129-133 raises TypeError, which
\* the framework answers with status 500
trackimo_connect ==
    HTTPException("trackimo_connect", Absent, 500, "Internal Server Error")

\* lines 152-174: the construction of lines 157-161 raises as well
trackimo_restore ==
    HTTPException("trackimo_restore", Absent, 500, "Internal Server Error")

\* lines 177-236: the five handlers that delegate to the Trackimo adapter
trackimo_call(handler) ==
    IF "trackimo" \notin DOMAIN parsers
    THEN HTTPException(handler, Absent, 400, "Trackimo not connected")
    ELSE CASE handler = "trackimo_get_devices" -> get_devices
           [] handler = "trackimo_get_location" -> get_device_location
           [] handler = "trackimo_get_history" -> get_device_history
           [] handler = "trackimo_beep_device" -> send_beep
           [] OTHER -> request_location

\* a call of a method of the adapter installed for a provider
AdapterCall(provider, adapter, method, result) ==
    [provider |-> provider, adapter |-> adapter, method |-> method, result |-> result]

\* the handler answers after the call of the Arvento adapter recorded in a_op'
Delegated(handler, arg, status, detail, body) ==
    /\ f_op' = FacadeOp(handler, arg, status, detail, body,
                        <<AdapterCall("arvento", parsers["arvento"], a_op'.name,
                                      a_op'.result)>>,
                        a_log')
    /\ UNCHANGED parsers

\* lines 241-266: ArventoParser.__init__ and connect (arvento_parser.py lines
\* 57-98) on the new adapter, which is installed if connect returns True
arvento_connect ==
    \E offline \in BOOLEAN :
        LET adapter == IF "arvento" \in DOMAIN parsers THEN parsers["arvento"] + 1 ELSE 1
            installed == [p \in DOMAIN parsers \cup {"arvento"} |->
                            IF p = "arvento" THEN adapter ELSE parsers[p]]
            wsdl == <<NetCall("wsdl", "Client", <<>>)>>
            Connected(client, mock, io) ==
                /\ a_offline' = offline
                /\ a_connected' = TRUE
                /\ a_client' = client
                /\ a_mock_nodes' = IF mock
                                   THEN ("34ABC123" :> "NODE001") @@ ("35XYZ789" :> "NODE002")
                                   ELSE <<>>
                /\ a_mock_locations' = IF mock THEN sample_locations ELSE <<>>
                /\ a_devices' = IF mock
                                THEN [node \in DOMAIN sample_locations |->
                                        ArventoDevice(node,
                                            IF node = "NODE001" THEN "Mock Vehicle NODE001"
                                            ELSE "Mock Vehicle NODE002",
                                            sample_locations[node])]
                                ELSE <<>>
                /\ a_op' = [name |-> "connect", plate |-> Absent, node |-> Absent,
                            result |-> RBool(TRUE), devices0 |-> <<>>]
                /\ a_log' = io
                /\ parsers' = installed
                /\ f_op' = FacadeOp("arvento_connect", Absent, 200, "",
                                    [status |-> "connected", provider |-> "arvento"],
                                    <<AdapterCall("arvento", adapter, "connect", RBool(TRUE))>>,
                                    io)
        IN  /\ adapter <= MaxAdapters
            /\ \/ /\ offline
                  /\ Connected(FALSE, TRUE, <<>>)
               \/ /\ ~offline
                  /\ ZEEP_AVAILABLE
                  /\ Connected(TRUE, FALSE, wsdl)
               \/ /\ ~offline
                  /\ ZEEP_AVAILABLE
                  /\ f_op' = FacadeOp("arvento_connect", Absent, 401,
                                      "Arvento connection failed", RNone,
                                      <<AdapterCall("arvento", adapter, "connect",
                                                    RBool(FALSE))>>,
                                      wsdl)
                  /\ UNCHANGED <<parsers, a_offline, a_connected, a_client, a_mock_nodes,
                                 a_mock_locations, a_devices, a_op, a_log>>
               \/ /\ ~offline
                  /\ ~ZEEP_AVAILABLE
                  /\ Connected(FALSE, FALSE, <<>>)
            /\ UNCHANGED <<ZEEP_AVAILABLE, tvars, pure, cvars>>

\* lines 269-283
arvento_add_vehicle ==
    IF "arvento" \notin DOMAIN parsers
    THEN \E license_plate \in Plates :
            HTTPException("arvento_add_vehicle", license_plate, 400, "Arvento not connected")
    ELSE /\ add_vehicle
         /\ IF a_op'.result.k = "none"
            THEN Delegated("arvento_add_vehicle", a_op'.plate, 404, "Vehicle not found", RNone)
            ELSE Delegated("arvento_add_vehicle", a_op'.plate, 200, "",
                           _device_to_response(a_op'.result))

\* lines 286-293
arvento_get_vehicles ==
    IF "arvento" \notin DOMAIN parsers
    THEN HTTPException("arvento_get_vehicles", Absent, 400, "Arvento not connected")
    ELSE /\ a_get_devices
         /\ Delegated("arvento_get_vehicles", Absent, 200, "",
                      [k |-> "responses",
                       items |-> {_device_to_response(a_devices[node]) :
                                    node \in DOMAIN a_devices}])

\* lines 296-306
arvento_get_location ==
    IF "arvento" \notin DOMAIN parsers
    THEN \E node \in NodeArgs :
            HTTPException("arvento_get_location", node, 400, "Arvento not connected")
    ELSE /\ a_get_vehicle_status
         /\ IF a_op'.result.k = "none"
            THEN Delegated("arvento_get_location", a_op'.node, 404, "Location not found", RNone)
            ELSE Delegated("arvento_get_location", a_op'.node, 200, "",
                           _location_to_response(a_op'.result))

\* lines 309-319
arvento_get_location_by_plate ==
    IF "arvento" \notin DOMAIN parsers
    THEN \E license_plate \in Plates :
            HTTPException("arvento_get_location_by_plate", license_plate, 400,
                          "Arvento not connected")
    ELSE /\ a_get_vehicle_by_plate
         /\ IF a_op'.result.k = "none"
            THEN Delegated("arvento_get_location_by_plate", a_op'.plate, 404,
                           "Vehicle not found", RNone)
            ELSE Delegated("arvento_get_location_by_plate", a_op'.plate, 200, "",
                           _location_to_response(a_op'.result))

\* lines 339-346
get_status ==
    /\ f_op' = FacadeOp("get_status", Absent, 200, "",
                        [status |-> "running", connected_providers |-> DOMAIN parsers,
                         timestamp |-> isoformat(fromtimestamp(now, "UTC"))],
                        <<>>, <<>>)
    /\ UNCHANGED <<parsers, tvars, avars, pure, cvars>>

\* disconnect_provider that leaves the registry as it is
disconnect_provider_keep ==
    \E provider \in {"trackimo", "arvento", "other"} :
        IF provider \notin DOMAIN parsers
        THEN HTTPException("disconnect_provider", provider, 404, "Provider not connected")
        ELSE /\ f_op' = FacadeOp("disconnect_provider", provider, 200, "",
                                 [status |-> "disconnected", provider |-> provider],
                                 <<AdapterCall(provider, parsers[provider], "disconnect",
                                               RNone)>>,
                                 <<>>)
             /\ UNCHANGED parsers
             /\ IF provider = "arvento"
                THEN a_disconnect
                ELSE /\ _session' = FALSE
                     /\ _access_token' = None
                     /\ _refresh_token' = None
                     /\ UNCHANGED <<_token_expires, _account_id, _username, _password,
                                    _devices, now, vendorN, faults, stack, ret, exc, op,
                                    log, avars, pure, cvars>>

\* lines 349-358: the adapter's disconnect (arvento_parser.py lines 100-103,
\* trackimo_parser.py lines 219-225), then del parsers[provider]
disconnect_provider ==
    \E provider \in {"trackimo", "arvento", "other"} :
        IF provider \notin DOMAIN parsers
        THEN HTTPException("disconnect_provider", provider, 404, "Provider not connected")
        ELSE /\ f_op' = FacadeOp("disconnect_provider", provider, 200, "",
                                 [status |-> "disconnected", provider |-> provider],
                                 <<AdapterCall(provider, parsers[provider], "disconnect",
                                               RNone)>>,
                                 <<>>)
             /\ parsers' = [p \in DOMAIN parsers \ {provider} |-> parsers[p]]
             /\ IF provider = "arvento"
                THEN a_disconnect
                ELSE /\ _session' = FALSE
                     /\ _access_token' = None
                     /\ _refresh_token' = None
                     /\ UNCHANGED <<_token_expires, _account_id, _username, _password,
                                    _devices, now, vendorN, faults, stack, ret, exc, op,
                                    log, avars, pure, cvars>>

\* get_all_devices without the try of lines 330-334: an adapter that raises
\* ends the handler with status 500
get_all_devices_propagate ==
    LET trackimo == "trackimo" \in DOMAIN parsers
        arvento == "arvento" \in DOMAIN parsers
        listed == [k |-> "devices", devices |-> a_devices]
        calls == (IF trackimo
                  THEN <<AdapterCall("trackimo", parsers["trackimo"], "get_devices",
                                     [k |-> "raise", e |-> "RuntimeError"])>>
                  ELSE <<>>)
    IN  /\ trackimo => ~_ensure_authenticated
        /\ IF trackimo
           THEN /\ Raise("get_devices", None, "RuntimeError")
                /\ UNCHANGED <<_session, _access_token, _refresh_token, _token_expires,
                               _account_id, _username, _password, _devices, now, vendorN,
                               faults, stack, ret, exc>>
           ELSE UNCHANGED tvars
        /\ IF arvento /\ ~trackimo
           THEN /\ a_op' = ArventoOp("get_devices", Absent, Absent, listed)
                /\ a_log' = <<>>
           ELSE UNCHANGED <<a_op, a_log>>
        /\ f_op' = IF trackimo
                   THEN FacadeOp("get_all_devices", Absent, 500, "Internal Server Error",
                                 RNone, calls, <<>>)
                   ELSE FacadeOp("get_all_devices", Absent, 200, "",
                            [k |-> "responses",
                             items |-> IF arvento
                                       THEN {_device_to_response(a_devices[node]) :
                                               node \in DOMAIN a_devices}
                                       ELSE {}],
                            IF arvento
                            THEN <<AdapterCall("arvento", parsers["arvento"], "get_devices",
                                               listed)>>
                            ELSE <<>>,
                            <<>>)
        /\ UNCHANGED <<parsers, a_offline, a_connected, a_client, a_mock_nodes,
                       a_mock_locations, a_devices, ZEEP_AVAILABLE, pure, cvars>>

\* lines 324-336: get_devices of every installed adapter; what an adapter
\* raises is logged and its devices are left out.  ArventoParser.get_devices
\* (arvento_parser.py lines 331-338) returns its registry; TrackimoParser.
\* get_devices (trackimo_parser.py lines 232-236) raises RuntimeError on an
\* adapter that is not authenticated, the only Trackimo adapter this action
\* is enabled for
get_all_devices ==
    LET trackimo == "trackimo" \in DOMAIN parsers
        arvento == "arvento" \in DOMAIN parsers
        listed == [k |-> "devices", devices |-> a_devices]
        calls == (IF trackimo
                  THEN <<AdapterCall("trackimo", parsers["trackimo"], "get_devices",
                                     [k |-> "raise", e |-> "RuntimeError"])>>
                  ELSE <<>>)
                 \o
                 (IF arvento
                  THEN <<AdapterCall("arvento", parsers["arvento"], "get_devices", listed)>>
                  ELSE <<>>)
    IN  /\ trackimo => ~_ensure_authenticated
        /\ IF trackimo
           THEN /\ Raise("get_devices", None, "RuntimeError")
                /\ UNCHANGED <<_session, _access_token, _refresh_token, _token_expires,
                               _account_id, _username, _password, _devices, now, vendorN,
                               faults, stack, ret, exc>>
           ELSE UNCHANGED tvars
        /\ IF arvento
           THEN /\ a_op' = ArventoOp("get_devices", Absent, Absent, listed)
                /\ a_log' = <<>>
           ELSE UNCHANGED <<a_op, a_log>>
        /\ f_op' = FacadeOp("get_all_devices", Absent, 200, "",
                            [k |-> "responses",
                             items |-> IF arvento
                                       THEN {_device_to_response(a_devices[node]) :
                                               node \in DOMAIN a_devices}
                                       ELSE {}],
                            calls, <<>>)
        /\ UNCHANGED <<parsers, a_offline, a_connected, a_client, a_mock_nodes,
                       a_mock_locations, a_devices, ZEEP_AVAILABLE, pure, cvars>>

\* ------------------------------------------ the aggregation in flight
\* get_all_devices (lines 324-336) over a registry whose Trackimo adapter is
\* authenticated: for ... in parsers.items() yields the Trackimo adapter, and
\* await parser.get_devices() runs up to its first request (trackimo_parser
\* lines 234-245), where the handler is suspended
get_all_devices_call ==
    /\ agg.pc = "idle"
    /\ "trackimo" \in DOMAIN parsers
    /\ _ensure_authenticated
    /\ Begin("get_devices", None)
    /\ stack' = <<[Frame("get_devices", "got_page") EXCEPT !.page = 1],
                  ApiFrame("devices", 1, FALSE)>>
    /\ agg' = [pc |-> "await", parsers0 |-> parsers]
    /\ UNCHANGED <<_session, _access_token, _refresh_token, _token_expires, _account_id,
                   _username, _password, _devices, now, vendorN, faults, ret, exc>>
    /\ UNCHANGED <<instances, dicts, tasks, events, acted, avars, pure, fvars>>

\* the handler answers status 500 to an exception that leaves it
InternalServerError(calls) ==
    [FacadeOp("get_all_devices", Absent, 500, "Internal Server Error", RNone, calls, <<>>)
        EXCEPT !.parsers0 = agg.parsers0]

\* the handler returns the projections of the devices listed: those of the
\* Trackimo adapter (first), then those of the Arvento adapter (items)
AllDevices(calls, first, items) ==
    [FacadeOp("get_all_devices", Absent, 200, "",
              [k |-> "responses", first |-> first, items |-> items], calls, <<>>)
        EXCEPT !.parsers0 = agg.parsers0]

\* lines 329-336 once get_devices of the Trackimo adapter has returned or
\* raised: its devices are taken, and the for statement asks the iterator of
\* parsers.items() for the next entry, outside the try.  The iterator raises
\* RuntimeError if the dict has changed its size since the loop began; if the
\* size is the same and the keys are not (one provider removed, another
\* installed) it raises or ends the loop, as the table of the dict was or was
\* not rebuilt; otherwise the Arvento adapter, installed after the Trackimo
\* adapter, comes next
get_all_devices_resume ==
    /\ agg.pc = "await"
    /\ Idle
    /\ LET listed == [k |-> "devices", devices |-> a_devices]
           first == <<AdapterCall("trackimo", agg.parsers0["trackimo"], "get_devices",
                                  op.result)>>
           own == IF op.status = "returned"
                  THEN {_device_to_response(op.result.devices[d]) :
                          d \in DOMAIN op.result.devices}
                  ELSE {}
           arvento == "arvento" \in DOMAIN parsers
       IN  IF Cardinality(DOMAIN parsers) # Cardinality(DOMAIN agg.parsers0)
           THEN /\ f_op' = InternalServerError(first)
                /\ UNCHANGED <<a_op, a_log>>
           ELSE IF DOMAIN parsers # DOMAIN agg.parsers0
           THEN /\ f_op' \in {InternalServerError(first), AllDevices(first, own, {})}
                /\ UNCHANGED <<a_op, a_log>>
           ELSE IF arvento
           THEN /\ a_op' = ArventoOp("get_devices", Absent, Absent, listed)
                /\ a_log' = <<>>
                /\ f_op' = AllDevices(
                              first \o <<AdapterCall("arvento", parsers["arvento"],
                                                     "get_devices", listed)>>,
                              own,
                              {_device_to_response(a_devices[node]) :
                                 node \in DOMAIN a_devices})
           ELSE /\ f_op' = AllDevices(first, own, {})
                /\ UNCHANGED <<a_op, a_log>>
    /\ agg' = [pc |-> "idle", parsers0 |-> <<>>]
    /\ UNCHANGED <<parsers, tvars, a_offline, a_connected, a_client, a_mock_nodes,
                   a_mock_locations, a_devices, ZEEP_AVAILABLE, pure,
                   instances, dicts, tasks, events, acted>>

\* ------------------------------------------- adapter objects, handlers in flight
\* The handlers of server.py run as tasks of one event loop: a handler runs
\* alone from one await that suspends to the next.  arvento_connect suspends
\* once, in connect, while the executor builds the rich client (arvento_parser
\* line 86); offline or without zeep it does not suspend at all.  Every adapter
\* object has its fields and refers to its dicts by their identity.
MaxTasks == 2       \* arvento_connect handlers in flight
MaxInstances == 3   \* adapter objects constructed
RacePlates == {"34ABC123", "06XYZ000"}   \* add_vehicle: a plate the vendor knows, one it does not

\* an ArventoParser that refers to the dict of the first adapter as its _devices
ArventoParser__init__shared(offline) ==
    [_offline |-> offline, _connected |-> FALSE, _client |-> FALSE,
     _devices |-> 1,
     _mock_nodes |-> Len(dicts) + 2,
     _mock_locations |-> Len(dicts) + 3,
     torn |-> FALSE]

\* ArventoParser.__init__ (lines 57-67) and BaseParser.__init__ (base.py lines
\* 15-17): three new dicts; torn says that disconnect was called on the object
ArventoParser__init__(offline) ==
    [_offline |-> offline, _connected |-> FALSE, _client |-> FALSE,
     _devices |-> Len(dicts) + 1,
     _mock_nodes |-> Len(dicts) + 2,
     _mock_locations |-> Len(dicts) + 3,
     torn |-> FALSE]

\* the dicts after the construction of an adapter
Allocated == dicts \o <<<<>>, <<>>, <<>>>>

\* lines 389-436 on a new adapter
LoadedMockData(obj) ==
    [Allocated EXCEPT
        ![obj._devices] = [node \in DOMAIN sample_locations |->
                              IF node = "NODE001" THEN "Mock Vehicle NODE001"
                              ELSE "Mock Vehicle NODE002"] @@ @,
        ![obj._mock_nodes] = ("34ABC123" :> "NODE001") @@ ("35XYZ789" :> "NODE002"),
        ![obj._mock_locations] = [node \in DOMAIN sample_locations |-> "location"]]

\* parsers["arvento"] = parser, only while the name has no adapter
Install_if_absent(adapter) ==
    parsers' = IF "arvento" \in DOMAIN parsers THEN parsers
               ELSE [p \in DOMAIN parsers \cup {"arvento"} |->
                       IF p = "arvento" THEN adapter ELSE parsers[p]]

\* server.py line 261: parsers["arvento"] = parser
Install(adapter) ==
    parsers' = [p \in DOMAIN parsers \cup {"arvento"} |->
                  IF p = "arvento" THEN adapter ELSE parsers[p]]

Answered200(handler, adapter) == Append(events, [handler |-> handler, adapter |-> adapter])

Acted(by, adapter) == acted' = [by |-> by, adapter |-> adapter]

\* server.py lines 248-261 up to the first suspension: the adapter is
\* constructed and connect runs; offline or without zeep it returns True at
\* once and the adapter is installed, otherwise the task waits for the executor
connect_call(t) ==
    /\ tasks[t].pc = "idle"
    /\ Len(instances) < MaxInstances
    /\ \E offline \in BOOLEAN :
        LET adapter == Len(instances) + 1
            obj == ArventoParser__init__(offline)
        IN  /\ Acted("arvento_connect", adapter)
            /\ IF offline
               THEN /\ instances' = Append(instances, [obj EXCEPT !._connected = TRUE])
                    /\ dicts' = LoadedMockData(obj)
                    /\ Install(adapter)
                    /\ events' = Answered200("arvento_connect", adapter)
                    /\ UNCHANGED tasks
               ELSE IF ZEEP_AVAILABLE
               THEN /\ instances' = Append(instances, obj)
                    /\ dicts' = Allocated
                    /\ tasks' = [tasks EXCEPT ![t] = [pc |-> "executor", adapter |-> adapter]]
                    /\ UNCHANGED <<parsers, events>>
               ELSE /\ instances' = Append(instances, [obj EXCEPT !._connected = TRUE])
                    /\ dicts' = Allocated
                    /\ Install(adapter)
                    /\ events' = Answered200("arvento_connect", adapter)
                    /\ UNCHANGED tasks
    /\ UNCHANGED <<agg, f_op, tvars, avars, pure>>

\* arvento_parser lines 86-98 and server.py lines 256-266 after the executor
\* has answered: the client was built and the adapter is installed, or
\* Client(host) raised, connect returns False and the handler answers 401
connect_resume(t) ==
    /\ tasks[t].pc = "executor"
    /\ LET adapter == tasks[t].adapter
       IN  /\ Acted("arvento_connect", adapter)
           /\ \E created \in BOOLEAN :
                IF created
                THEN /\ instances' = [instances EXCEPT ![adapter]._client = TRUE,
                                                       ![adapter]._connected = TRUE]
                     /\ Install(adapter)
                     /\ events' = Answered200("arvento_connect", adapter)
                ELSE UNCHANGED <<instances, parsers, events>>
    /\ tasks' = [tasks EXCEPT ![t] = [pc |-> "idle", adapter |-> 0]]
    /\ UNCHANGED <<dicts, agg, f_op, tvars, avars, pure>>

\* arvento_add_vehicle (server.py lines 269-283) on the installed adapter: the
\* plate resolves from the fixture offline and at the vendor through the rich
\* client (not by the hand-built request), and the device is written to the
\* adapter's _devices
handler_add_vehicle ==
    /\ "arvento" \in DOMAIN parsers
    /\ LET adapter == parsers["arvento"]
           obj == instances[adapter]
       IN  /\ Acted("add_vehicle", adapter)
           /\ \E license_plate \in RacePlates, name \in VehicleNames :
                LET nodes == dicts[obj._mock_nodes]
                    node == IF obj._offline
                            THEN (IF license_plate \in DOMAIN nodes
                                  THEN RStr(nodes[license_plate]) ELSE RNone)
                            ELSE IF ZEEP_AVAILABLE /\ obj._client
                            THEN VendorNode(license_plate)
                            ELSE RNone
                IN  IF ATruthy(node)
                    THEN dicts' = [dicts EXCEPT ![obj._devices] =
                                      (node.v :> (IF name # Absent /\ name # "" THEN name
                                                  ELSE license_plate)) @@ @]
                    ELSE UNCHANGED dicts
    /\ UNCHANGED <<instances, tasks, events, agg, parsers, f_op, tvars, avars, pure>>

\* arvento_get_vehicles (server.py lines 286-293) on the installed adapter
handler_get_vehicles ==
    /\ "arvento" \in DOMAIN parsers
    /\ Acted("get_devices", parsers["arvento"])
    /\ UNCHANGED <<instances, dicts, tasks, events, agg, parsers, f_op, tvars, avars, pure>>

\* disconnect_provider("arvento") (server.py lines 349-358): disconnect of the
\* installed adapter (arvento_parser lines 100-103), then del parsers[provider]
handler_disconnect ==
    /\ "arvento" \in DOMAIN parsers
    /\ LET adapter == parsers["arvento"]
       IN  /\ Acted("disconnect", adapter)
           /\ instances' = [instances EXCEPT ![adapter]._client = FALSE,
                                             ![adapter]._connected = FALSE,
                                             ![adapter].torn = TRUE]
           /\ parsers' = [p \in DOMAIN parsers \ {"arvento"} |-> parsers[p]]
           /\ events' = Answered200("disconnect_provider", adapter)
    /\ UNCHANGED <<dicts, tasks, agg, f_op, tvars, avars, pure>>

\* no adapter object constructed, no handler in flight
ObjectsInit ==
    /\ instances = <<>>
    /\ dicts = <<>>
    /\ tasks = [t \in 1..MaxTasks |-> [pc |-> "idle", adapter |-> 0]]
    /\ events = <<>>
    /\ acted = [by |-> "", adapter |-> 0]
    /\ agg = [pc |-> "idle", parsers0 |-> <<>>]

\* the module as imported: no adapter is installed (line 22)
FacadeInit ==
    /\ parsers = <<>>
    /\ f_op = [handler |-> "", arg |-> Absent, status |-> 0, detail |-> "",
               body |-> RNone, calls |-> <<>>, io |-> <<>>, parsers0 |-> <<>>]
    /\ ObjectsInit


\* ---------------------------------------------------------- specification
\* TrackimoParser.__init__ (lines 38-48) and BaseParser.__init__
TrackimoInit(counts, budget) ==
    /\ _session = FALSE
    /\ _access_token = None
    /\ _refresh_token = None
    /\ _token_expires = None
    /\ _account_id = None
    /\ _username = None
    /\ _password = None
    /\ _devices = <<>>
    /\ now = 0
    /\ vendorN \in counts
    /\ faults = budget
    /\ stack = <<>>
    /\ ret = RNone
    /\ exc = FALSE
    /\ op = OpRecord("__init__", None, "returned", RNone)
    /\ log = <<>>

\* the Trackimo adapter under vendor faults and a running clock
Init ==
    /\ TrackimoInit(OneDevice, MaxFaults)
    /\ ArventoInit({FALSE}, {FALSE})
    /\ pure = PureIdle
    /\ FacadeInit

Next ==
    \/ connect
    \/ connect_tail
    \/ _restore_session
    \/ _restore_session_tail
    \/ _login_start
    \/ _login_response
    \/ _login_got_code
    \/ _login_got_token
    \/ _login_true
    \/ _refresh_access_token_start
    \/ _refresh_access_token_got
    \/ _refresh_access_token_true
    \/ _refresh_access_token_tail
    \/ _get_user_info_start
    \/ _get_user_info_got
    \/ _api_request_start
    \/ _api_request_send
    \/ _api_request_response
    \/ _api_request_retry
    \/ _api_request_retry_response
    \/ Propagate
    \/ disconnect
    \/ get_devices
    \/ get_devices_got_page
    \/ get_devices_loop
    \/ get_devices_parsed
    \/ get_devices_return
    \/ _parse_device_start
    \/ _parse_device_got
    \/ _fetch_all_locations_start
    \/ _fetch_all_locations_got
    \/ get_device_location
    \/ get_device_location_got
    \/ get_device_history
    \/ get_device_history_got
    \/ send_beep
    \/ send_beep_got
    \/ request_location
    \/ request_location_got
    \/ Tick

Spec == Init /\ [][Next]_vars

\* A username/password session in which disconnect may run while an operation
\* is suspended; the vendor gives one answer other than the plain success.
InitInFlight ==
    /\ TrackimoInit(OneDevice, 1)
    /\ ArventoInit({FALSE}, {FALSE})
    /\ pure = PureIdle
    /\ FacadeInit

NextInFlight ==
    \/ connect_password
    \/ connect_tail
    \/ _login_start
    \/ _login_response
    \/ _login_got_code
    \/ _login_got_token
    \/ _login_true
    \/ _refresh_access_token_start
    \/ _refresh_access_token_got
    \/ _refresh_access_token_true
    \/ _refresh_access_token_tail
    \/ _get_user_info_start
    \/ _get_user_info_got
    \/ _api_request_start
    \/ _api_request_send
    \/ _api_request_response
    \/ _api_request_retry
    \/ _api_request_retry_response
    \/ Propagate
    \/ disconnect
    \/ disconnect_in_flight
    \/ get_devices
    \/ get_devices_got_page
    \/ get_devices_loop
    \/ get_devices_parsed
    \/ get_devices_return
    \/ _parse_device_start
    \/ _parse_device_got
    \/ _fetch_all_locations_start
    \/ _fetch_all_locations_got
    \/ Tick

SpecInFlight == InitInFlight /\ [][NextInFlight]_vars

\* The paging specification: a username/password session against vendors with
\* up to three pages of devices.  The vendor answers every request plainly and
\* the clock stands still, so no token expires and nothing is retried.
InitPaging ==
    /\ TrackimoInit(PagingCounts, 0)
    /\ ArventoInit({FALSE}, {FALSE})
    /\ pure = PureIdle
    /\ FacadeInit

NextPaging ==
    \/ connect_password
    \/ connect_tail
    \/ _login_start
    \/ _login_response
    \/ _login_got_code
    \/ _login_got_token
    \/ _login_true
    \/ _get_user_info_start
    \/ _get_user_info_got
    \/ _api_request_start
    \/ _api_request_response
    \/ get_devices
    \/ get_devices_got_page
    \/ get_devices_loop
    \/ get_devices_parsed
    \/ get_devices_return
    \/ _parse_device_start
    \/ _parse_device_got
    \/ _fetch_all_locations_start
    \/ _fetch_all_locations_got
    \/ VendorChange(PagingCounts)

SpecPaging == InitPaging /\ [][NextPaging]_vars

\* the Arvento adapter, offline or online, with or without the rich client
InitArvento ==
    /\ TrackimoInit(OneDevice, 0)
    /\ ArventoInit(BOOLEAN, BOOLEAN)
    /\ pure = PureIdle
    /\ FacadeInit

NextArvento ==
    \/ a_connect /\ UNCHANGED fvars
    \/ a_disconnect /\ UNCHANGED fvars
    \/ a_get_node_from_license_plate /\ UNCHANGED fvars
    \/ a_get_vehicle_status /\ UNCHANGED fvars
    \/ a_get_vehicle_by_plate /\ UNCHANGED fvars
    \/ a_get_devices /\ UNCHANGED fvars
    \/ a_get_device_location /\ UNCHANGED fvars
    \/ a_get_device_history /\ UNCHANGED fvars
    \/ add_vehicle /\ UNCHANGED fvars
    \/ Tick

SpecArvento == InitArvento /\ [][NextArvento]_vars

\* the pure functions, each applied once to each input
InitPure ==
    /\ TrackimoInit(OneDevice, 0)
    /\ ArventoInit({FALSE}, {FALSE})
    /\ pure \in {[fn |-> "_parse_location",
                  in |-> [speed |-> s, speed_unit |-> u],
                  out |-> RNone, done |-> FALSE] : s \in RawSpeeds, u \in SpeedUnits}
           \cup
           {[fn |-> "_basic_soap_request",
             in |-> [key |-> key, value |-> v],
             out |-> RNone, done |-> FALSE] : key \in ValueKeys, v \in Values}
           \cup
           {[fn |-> "_parse_vehicle_status",
             in |-> [shape |-> shape, lat |-> lat, lng |-> lng, rest |-> rest],
             out |-> RNone, done |-> FALSE] :
               shape \in {"zeep", "dict", "flat"},
               lat \in {"absent", "empty", "zero", "value"},
               lng \in {"absent", "empty", "zero", "value"},
               rest \in {"absent", "empty", "zero", "value"}}
           \cup
           {[fn |-> "to_dict",
             in |-> [provider |-> p, time |-> t, zone |-> z],
             out |-> RNone, done |-> FALSE] :
               p \in {"TRACKIMO", "ARVENTO"},
               t \in {None} \cup {1800 * h : h \in 0..MaxHalfHours},
               z \in {"UTC", "DST"}}
    /\ FacadeInit

NextPure ==
    \/ parse_location_step
    \/ soap_body_step
    \/ parse_vehicle_status_step
    \/ to_dict_step

SpecPure == InitPure /\ [][NextPure]_vars

\* the facade from the import of the module, with or without the rich client
InitFacade ==
    /\ TrackimoInit(OneDevice, 0)
    /\ ArventoInit({FALSE}, BOOLEAN)
    /\ pure = PureIdle
    /\ FacadeInit

NextFacade ==
    \/ trackimo_connect
    \/ trackimo_restore
    \/ \E handler \in {"trackimo_get_devices", "trackimo_get_location",
                       "trackimo_get_history", "trackimo_beep_device",
                       "trackimo_request_location"} : trackimo_call(handler)
    \/ arvento_connect
    \/ arvento_add_vehicle
    \/ arvento_get_vehicles
    \/ arvento_get_location
    \/ arvento_get_location_by_plate
    \/ get_all_devices
    \/ get_status
    \/ disconnect_provider

SpecFacade == InitFacade /\ [][NextFacade]_vars

\* the aggregation over a registry that holds a Trackimo adapter.  No handler
\* installs one (trackimo_connect and trackimo_restore raise), so the registry
\* starts as code that imports the module and assigns to parsers leaves it:
\* with a TrackimoParser as constructed, on which connect was not called
InitAggregate ==
    /\ TrackimoInit(OneDevice, 0)
    /\ ArventoInit({FALSE}, BOOLEAN)
    /\ pure = PureIdle
    /\ parsers = ("trackimo" :> 1)
    /\ f_op = [handler |-> "", arg |-> Absent, status |-> 0, detail |-> "",
               body |-> RNone, calls |-> <<>>, io |-> <<>>, parsers0 |-> <<>>]
    /\ ObjectsInit

NextAggregate ==
    \/ arvento_connect
    \/ arvento_add_vehicle
    \/ get_all_devices
    \/ disconnect_provider

SpecAggregate == InitAggregate /\ [][NextAggregate]_vars

\* The aggregation with other handlers in flight.  The registry starts with a
\* TrackimoParser as in InitAggregate, on which connect is called from outside
\* the handlers.
InitAggregateRace ==
    /\ TrackimoInit(OneDevice, 0)
    /\ ArventoInit({FALSE}, {FALSE})
    /\ pure = PureIdle
    /\ parsers = ("trackimo" :> 1)
    /\ f_op = [handler |-> "", arg |-> Absent, status |-> 0, detail |-> "",
               body |-> RNone, calls |-> <<>>, io |-> <<>>, parsers0 |-> <<>>]
    /\ ObjectsInit

\* a handler or a call from outside starts when the event loop is free: the
\* adapter's operation is suspended, or nothing is running at all
LoopFree == Suspended \/ (Idle /\ agg.pc = "idle")

NextAggregateRace ==
    \/ agg.pc = "idle" /\ connect_password
    \/ connect_tail
    \/ _login_start
    \/ _login_response
    \/ _login_got_code
    \/ _login_got_token
    \/ _login_true
    \/ _get_user_info_start
    \/ _get_user_info_got
    \/ _api_request_start
    \/ _api_request_response
    \/ get_devices_got_page
    \/ get_devices_loop
    \/ get_devices_parsed
    \/ get_devices_return
    \/ _parse_device_start
    \/ _parse_device_got
    \/ _fetch_all_locations_start
    \/ _fetch_all_locations_got
    \/ get_all_devices_call
    \/ get_all_devices_resume
    \/ LoopFree /\ arvento_connect
    \/ LoopFree /\ disconnect_provider

SpecAggregateRace == InitAggregateRace /\ [][NextAggregateRace]_vars

\* arvento_connect handlers in flight together with the other handlers
InitConcurrent ==
    /\ TrackimoInit(OneDevice, 0)
    /\ ArventoInit({FALSE}, BOOLEAN)
    /\ pure = PureIdle
    /\ FacadeInit

NextConcurrent ==
    \/ \E t \in 1..MaxTasks : connect_call(t)
    \/ \E t \in 1..MaxTasks : connect_resume(t)
    \/ handler_add_vehicle
    \/ handler_get_vehicles
    \/ handler_disconnect

SpecConcurrent == InitConcurrent /\ [][NextConcurrent]_vars

\* ================================================================ claims
SingleCallOps == {"get_device_location", "get_device_history", "send_beep",
                  "request_location"}
AuthenticatedOps == SingleCallOps \cup {"get_devices"}

\* the endpoint of a single-call operation
EndpointOf(name) ==
    CASE name = "get_device_location" -> "location"
      [] name = "get_device_history" -> "history"
      [] name = "send_beep" -> "ops/beep"
      [] OTHER -> "ops/getLocation"

\* positions in the log
HttpTo(ep) == {i \in DOMAIN log : log[i].ev = "http" /\ log[i].ep = ep}
RefreshesBy(by) == {i \in DOMAIN log : log[i].ev = "refresh" /\ log[i].by = by}
GoodResp(i, ep) == /\ log[i].ev = "resp"
                   /\ log[i].ep = ep
                   /\ log[i].status = 200

ConnectReturned(b) == /\ op.name = "connect"
                      /\ op.status = "returned"
                      /\ op.result = RBool(b)

\* C1 (as claimed): in an operation that makes one authenticated call, 401
\* responses trigger at most one token refresh and the request is sent at most
\* twice (once and one retry), whatever the vendor answers.
C1_OneRefreshOneRetry ==
    op.name \in SingleCallOps =>
        /\ Cardinality(RefreshesBy("401")) <= 1
        /\ Cardinality(HttpTo(EndpointOf(op.name))) <= 2

\* C2: an authenticated operation called while the account id is unknown raises
\* the "Not authenticated" RuntimeError and sends no request.
C2_UnauthenticatedFailsFast ==
    (op.name \in AuthenticatedOps /\ op.account0 = None) =>
        /\ op.status = "raised"
        /\ op.result = [k |-> "raise", e |-> "RuntimeError"]
        /\ log = <<>>
        /\ stack = <<>>

\* the adapter holds a token, its account id was never fetched, get_devices raised
C2_Witness ==
    /\ op.name = "get_devices"
    /\ op.status = "raised"
    /\ _access_token # None
    /\ _account_id = None

\* the three steps of a login succeeded, in order
LoginStepsSucceeded ==
    \E i, j, n \in DOMAIN log :
        /\ i < j
        /\ j < n
        /\ GoodResp(i, "login")
        /\ GoodResp(j, "oauth2/auth") /\ Truthy(log[j].body) /\ log[j].body.code # None
        /\ GoodResp(n, "oauth2/token") /\ Truthy(log[n].body)
        /\ log[n].body.access_token # None

PasswordConnect == op.name = "connect" /\ op.arg.refresh_token = None

\* C3 (as claimed): a username/password connect returns True only if the three
\* steps succeeded, and after it has returned False the adapter holds no access
\* token.
C3_FailedConnectHoldsNoToken ==
    PasswordConnect =>
        /\ ConnectReturned(TRUE) => LoginStepsSucceeded /\ _access_token # None
        /\ ConnectReturned(FALSE) => _access_token = None

\* C3 (amended): a username/password connect returns True only if the three
\* steps succeeded, and a connect that returned False has left the access token
\* and the account id as they were when it was called.
C3_FailedConnectKeepsToken ==
    PasswordConnect =>
        /\ ConnectReturned(TRUE) => LoginStepsSucceeded /\ _access_token # None
        /\ ConnectReturned(FALSE) =>
              /\ _access_token = op.token0
              /\ _account_id = op.account0

\* a connect failed at the token exchange, after the login and the code succeeded
C3_Witness ==
    /\ PasswordConnect
    /\ ConnectReturned(FALSE)
    /\ \E i, j \in DOMAIN log : i < j /\ GoodResp(i, "login") /\ GoodResp(j, "oauth2/auth")
    /\ HttpTo("oauth2/token") # {}

\* C4 (as claimed): connect(refresh_token) sends the refresh POST first, and
\* without username/password it sends no login request.
C4_NoLoginWithoutCredentials ==
    (op.name = "connect" /\ op.arg.refresh_token # None) =>
        /\ \A i \in HttpTo("login") : \E j \in HttpTo("oauth2/token/refresh") : j < i
        /\ op.arg.username = None => HttpTo("login") = {}

\* an authenticated request goes on the wire with a bearer token
SendsBearer(l, i) == /\ l[i].ev = "http"
                     /\ l[i].hdr # None
                     /\ l[i].ep \notin {"login", "oauth2/auth", "oauth2/token",
                                        "oauth2/token/refresh"}

\* C5 (as claimed): a call that began with an expired token does not send its
\* request with a bearer token whose expiry instant has passed.
C5_NoExpiredTokenSent ==
    [][(/\ Running("_api_request", "send")
        /\ Len(log') = Len(log) + 1
        /\ SendsBearer(log', Len(log'))) => ~Expired]_vars

\* C5 (amended): when the expiry instant has passed as an authenticated call
\* begins, _refresh_access_token is called before the request is sent.
C5_RefreshAttemptedFirst ==
    \A i \in DOMAIN log :
        (log[i].ev = "call" /\ ~log[i].no_auth /\ log[i].expired) =>
            /\ i < Len(log)
            /\ log[i + 1] = RefreshEv("expiry")

\* a call began with an expired token and its request has been sent
C5_Witness ==
    \E i, j \in DOMAIN log :
        /\ i < j
        /\ log[i].ev = "call" /\ ~log[i].no_auth /\ log[i].expired
        /\ log[j].ev = "http" /\ log[j].ep = log[i].ep /\ log[j].ep # "users/me"

\* ------------------------------------------------------ claims on get_devices
Range(f) == {f[i] : i \in DOMAIN f}

CallsTo(ep) == {i \in DOMAIN log : log[i].ev = "call" /\ log[i].ep = ep}

\* the position of the first call to ep after position i, Len(log) + 1 if none
NextCall(ep, i) ==
    LET later == {j \in CallsTo(ep) : j > i}
    IN  IF later = {} THEN Len(log) + 1 ELSE CHOOSE j \in later : \A n \in later : j <= n

\* the items the listing call at position i received: none if the request failed
PageOf(i) ==
    LET got == {j \in DOMAIN log : /\ i < j
                                   /\ j < NextCall("devices", i)
                                   /\ GoodResp(j, "devices")
                                   /\ log[j].body.k = "list"}
    IN  IF got = {} THEN <<>> ELSE log[CHOOSE j \in got : TRUE].body.items

\* the device ids of the pages received in this operation
Listed == UNION {Range(PageOf(i)) : i \in CallsTo("devices")}

GetDevicesReturned == /\ op.name = "get_devices"
                      /\ op.status = "returned"

\* listing requests ask for the pages 1, 2, 3, ... and go on exactly until a
\* page has fewer than limit items (a failed request counts as an empty page)
PagesInOrder ==
    LET calls == CallsTo("devices")
    IN  \A i \in calls :
           /\ log[i].arg = Cardinality({j \in calls : j <= i})
           /\ NextCall("devices", i) <= Len(log) => Len(PageOf(i)) = limit
           /\ (GetDevicesReturned /\ NextCall("devices", i) > Len(log))
                 => Len(PageOf(i)) < limit

\* C6 (as claimed): get_devices asks for the pages in order until one is short
\* and returns the union of the devices of those pages.
C6_ReturnsUnionOfPages ==
    op.name = "get_devices" =>
        /\ PagesInOrder
        /\ GetDevicesReturned => DOMAIN op.result.devices = Listed

\* C6 (amended): get_devices asks for the pages in order until one is short and
\* returns the whole registry: the devices of those pages together with the
\* devices registered before the call.
C6_ReturnsRegistry ==
    op.name = "get_devices" =>
        /\ PagesInOrder
        /\ GetDevicesReturned =>
              /\ op.result.devices = _devices
              /\ DOMAIN op.result.devices = Listed \cup op.known0

\* 20 devices on page 1, one on page 2: two listing requests, 21 devices returned
C6_Witness ==
    /\ GetDevicesReturned
    /\ Cardinality(CallsTo("devices")) = 2
    /\ Cardinality(Listed) = limit + 1
    /\ Listed \subseteq DOMAIN op.result.devices

\* the batched location request returned rows
BatchYieldedData ==
    LET resps == {j \in DOMAIN log : log[j].ev = "resp" /\ log[j].ep = "locations/filter"}
        last == CHOOSE j \in resps : \A n \in resps : n <= j
    IN  /\ resps # {}
        /\ log[last].status = 200
        /\ Truthy(log[last].body)

C8_SpeedConversion ==
    (pure.fn = "_parse_location" /\ pure.done /\ pure.in.speed # None) =>
        /\ pure.in.speed_unit = "mph" =>
              pure.out.speed = pure.in.speed * KmhPerMile
        /\ pure.in.speed_unit \in {"kph", Absent} =>
              pure.out.speed = pure.in.speed * Scale

\* a raw speed of 10 mph was parsed to 16.0934 km/h
C8_Witness ==
    /\ pure.fn = "_parse_location"
    /\ pure.done
    /\ pure.in.speed = 10
    /\ pure.in.speed_unit = "mph"
    /\ pure.out.speed = 1609340

FixturePlates == {"34ABC123", "35XYZ789"}

\* C9: an offline Arvento adapter makes no network call in any operation;
\* its connect returns True; while it is connected, plate 34ABC123 resolves
\* to NODE001 and the status of NODE001 is the sample location loaded by
\* connect, at 40.978 N 29.092 E and dated 3 minutes before the load;
\* add_vehicle with a plate outside the fixture returns None and leaves the
\* device registry as it was.
C9_OfflineNoNetwork ==
    a_offline =>
        /\ a_log = <<>>
        /\ a_op.name = "connect" => a_op.result = RBool(TRUE)
        /\ (a_connected /\ a_op.name = "get_node_from_license_plate"
                        /\ a_op.plate = "34ABC123") =>
              a_op.result = RStr("NODE001")
        /\ (a_connected /\ a_op.name \in {"get_vehicle_status", "get_device_location"}
                        /\ a_op.node = "NODE001") =>
              /\ a_op.result = a_mock_locations["NODE001"]
              /\ a_op.result.latitude = 4097800
              /\ a_op.result.longitude = 2909200
              /\ a_op.result.speed = 1230000
              /\ a_op.result.course = 45
              /\ a_op.result.odometer = 25010
              /\ a_op.result.timestamp <= (now - 180) * 1000
        /\ (a_op.name = "add_vehicle" /\ a_op.plate \notin FixturePlates) =>
              /\ a_op.result = RNone
              /\ a_devices = a_op.devices0

\* a connected offline adapter was asked to add an unknown plate: it returned
\* None and the registry holds the two fixture vehicles only
C9_Witness ==
    /\ a_offline
    /\ a_connected
    /\ a_op.name = "add_vehicle"
    /\ a_op.plate = "06XYZ000"
    /\ a_op.result = RNone
    /\ DOMAIN a_devices = {"NODE001", "NODE002"}

\* the markup and the texts of a document, in order: a tag runs from "<" to
\* the next ">", a text from there to the next "<"
RECURSIVE Parse(_)
Parse(s) ==
    IF s = <<>> THEN <<>>
    ELSE LET stop == IF Head(s) = "<" THEN ">" ELSE "<"
             hits == {i \in 2..Len(s) : s[i] = stop}
             j == IF hits = {} THEN Len(s) + 1
                  ELSE CHOOSE i \in hits : \A h \in hits : i <= h
         IN  IF Head(s) = "<"
             THEN <<[tag |-> TRUE, toks |-> SubSeq(s, 2, j - 1)]>>
                  \o Parse(SubSeq(s, j + 1, Len(s)))
             ELSE <<[tag |-> FALSE, toks |-> SubSeq(s, 1, j - 1)]>>
                  \o Parse(SubSeq(s, j, Len(s)))

Tags(s) == SelectSeq(Parse(s), LAMBDA item : item.tag)

\* the text of the element named key: what follows its start tag
TextOf(s, key) ==
    LET items == Parse(s)
        i == CHOOSE n \in DOMAIN items : items[n].tag /\ items[n].toks = <<key>>
    IN  IF i < Len(items) /\ ~items[i + 1].tag THEN items[i + 1].toks ELSE <<>>

\* a text read as XML character data: "?" stands for what a parser rejects
RECURSIVE Decode(_)
Decode(t) ==
    IF t = <<>> THEN <<>>
    ELSE IF Head(t) = "&"
    THEN IF Len(t) >= 3 /\ t[2] \in {"amp", "gt", "lt"} /\ t[3] = ";"
         THEN <<IF t[2] = "amp" THEN "&" ELSE IF t[2] = "gt" THEN ">" ELSE "<">>
              \o Decode(SubSeq(t, 4, Len(t)))
         ELSE <<"?">>
    ELSE IF Head(t) \in {"<", ">"} THEN <<"?">>
    ELSE <<Head(t)>> \o Decode(Tail(t))

\* C10: in the envelope that _basic_soap_request builds, whatever the value of
\* a parameter, the markup is that of the envelope built for a plain value, so
\* the value adds no element; the text of the parameter's element holds no raw
\* "<" or ">" and no "&" other than the start of &lt; &gt; &amp;, and reads
\* back as the value.
C10_ValuesEscaped ==
    (pure.fn = "_basic_soap_request" /\ pure.done) =>
        /\ Tags(pure.out) = Tags(soap_body("GetNodeFromLicensePlate",
                                           TextParams(pure.in.key, <<"a">>)))
        /\ Decode(TextOf(pure.out, pure.in.key)) = pure.in.value

\* the envelope was built for a plate that holds "<", "&" and ">"
C10_Witness ==
    /\ pure.fn = "_basic_soap_request"
    /\ pure.done
    /\ pure.in.key = "LicensePlate"
    /\ pure.in.value = <<"<", "&", ">">>
    /\ TextOf(pure.out, "LicensePlate")
         = <<"&", "lt", ";", "&", "amp", ";", "&", "gt", ";">>

\* C11 (as claimed): whatever the shape of the status, _parse_vehicle_status
\* yields latitude and longitude None exactly when the vendor's field is
\* missing or empty and the vendor's number otherwise, zero included; altitude,
\* speed, course and odometer are 0 when the vendor's field is missing or empty.
C11_CoordinatesNullIffEmpty ==
    (pure.fn = "_parse_vehicle_status" /\ pure.done) =>
        /\ pure.out.latitude = IF pure.in.lat \in {"absent", "empty"} THEN None
                               ELSE VendorNumber("dLatitude", pure.in.lat)
        /\ pure.out.longitude = IF pure.in.lng \in {"absent", "empty"} THEN None
                                ELSE VendorNumber("dLongitude", pure.in.lng)
        /\ pure.in.rest \in {"absent", "empty"} =>
              /\ pure.out.altitude = 0
              /\ pure.out.speed = 0
              /\ pure.out.course = 0
              /\ pure.out.odometer = 0

\* C13: get_device_history of the Arvento adapter returns the empty list and
\* makes no network call, whatever the device id, whether the adapter is
\* offline or online, connected or not.
C13_HistoryEmpty ==
    a_op.name = "get_device_history" =>
        /\ a_op.result = RList(<<>>)
        /\ a_log = <<>>

\* the history of a node the vendor knows was asked of an online adapter that
\* is connected through the rich client
C13_Witness ==
    /\ a_op.name = "get_device_history"
    /\ a_op.node = "NODE001"
    /\ ~a_offline
    /\ a_connected
    /\ a_client
    /\ a_op.result = RList(<<>>)

\* the vendor's last answer to the history request was 200 with no rows
NoRowsReported ==
    \E i \in DOMAIN log :
        /\ GoodResp(i, "history")
        /\ log[i].body = RList(<<>>)
        /\ \A j \in DOMAIN log : (log[j].ev = "resp" /\ log[j].ep = "history") => j <= i

\* C20: get_device_history called on an authenticated adapter without a window
\* asks for the window from now - 24 h to now: its call of _api_request carries
\* that window, and so does every request it sends; once the vendor has
\* answered with no rows the operation returns the empty list and does not
\* raise.
C20_HistoryDefaultsAndEmpty ==
    [][/\ (Idle /\ op'.name = "get_device_history" /\ op'.status = "running"
             /\ op'.arg.start_date = None /\ op'.arg.end_date = None) =>
            stack'[Len(stack')].arg = [id |-> op'.arg.id, from |-> now - Day, to |-> now]
       /\ (op.name = "get_device_history" /\ log = <<>> /\ log' # <<>>) =>
            /\ log'[1].ev = "call"
            /\ log'[1].arg = Top.arg
       /\ op'.name = "get_device_history" =>
            \A i \in DOMAIN log' :
                (log'[i].ev \in {"call", "http"} /\ log'[i].ep = "history") =>
                    log'[i].arg = log'[1].arg
       /\ (op'.name = "get_device_history" /\ stack' = <<>> /\ ~exc'
             /\ log' # <<>> /\ NoRowsReported') =>
            /\ op'.status = "returned"
            /\ op'.result = [k |-> "locs", items |-> <<>>]]_vars

\* a history without a window was asked for a day ending now, the vendor
\* reported no rows and the operation returned the empty list
C20_Witness ==
    /\ op.name = "get_device_history"
    /\ op.status = "returned"
    /\ op.arg.start_date = None
    /\ NoRowsReported
    /\ op.result = [k |-> "locs", items |-> <<>>]
    /\ \E i \in HttpTo("history") : log[i].arg.to - log[i].arg.from = Day

\* the vendor's last answer on endpoint ep was neither 200 nor the handled 401
TransportError(ep) ==
    \E i \in DOMAIN log :
        /\ log[i].ev = "resp" /\ log[i].ep = ep
        /\ log[i].status \notin {200, 401}
        /\ \A j \in DOMAIN log : (log[j].ev = "resp" /\ log[j].ep = ep) => j <= i

\* C17 (as claimed): when the vendor answers the location request of
\* get_device_location with an error status, the operation does not end in the
\* not-found outcome, which is to return None as it does for a vendor that
\* holds no location (the facade answers None with 404 "Location not found").
C17_TransportErrorIsNotNotFound ==
    (op.name = "get_device_location" /\ op.status # "running"
       /\ TransportError("location")) =>
        ~(op.status = "returned" /\ op.result = RNone)

\* C18 (as claimed): the public serialization of a Location gives provider as
\* its lowercase string, gives timestamp as null exactly when the Location has
\* no timestamp, has no raw-payload entry, and a timestamp string determines
\* the point in time it was made from: no other instant serializes, on the
\* same server, to the same string.
C18_PublicSerialization ==
    (pure.fn = "to_dict" /\ pure.done) =>
        /\ pure.out.provider = (IF pure.in.provider = "TRACKIMO" THEN "trackimo"
                                ELSE "arvento")
        /\ (pure.out.timestamp = RNone) <=> (pure.in.time = None)
        /\ "raw_data" \notin DOMAIN pure.out
        /\ pure.in.time # None =>
              \A t \in {1800 * h : h \in 0..MaxHalfHours} :
                  isoformat(fromtimestamp(t, pure.in.zone)) = pure.out.timestamp
                      => t = pure.in.time

\* the parts of C18 that do not depend on the server's zone
C18_ProviderNullAndNoRaw ==
    (pure.fn = "to_dict" /\ pure.done) =>
        /\ pure.out.provider \in {"trackimo", "arvento"}
        /\ (pure.out.timestamp = RNone) <=> (pure.in.time = None)
        /\ "raw_data" \notin DOMAIN pure.out
        /\ (pure.in.time # None /\ pure.in.zone = "UTC") =>
              \A t \in {1800 * h : h \in 0..MaxHalfHours} :
                  isoformat(fromtimestamp(t, "UTC")) = pure.out.timestamp
                      => t = pure.in.time

\* ----------------------------------------------------------------- facade
ConnectHandlers == {"trackimo_connect", "trackimo_restore", "arvento_connect"}
TrackimoHandlers == {"trackimo_get_devices", "trackimo_get_location", "trackimo_get_history",
                     "trackimo_beep_device", "trackimo_request_location"}
ArventoHandlers == {"arvento_add_vehicle", "arvento_get_vehicles", "arvento_get_location",
                    "arvento_get_location_by_plate"}

\* the provider a handler's response r is about
ProviderOf(r) ==
    IF r.handler = "disconnect_provider" THEN r.arg
    ELSE IF r.handler \in TrackimoHandlers \cup {"trackimo_connect", "trackimo_restore"}
    THEN "trackimo"
    ELSE "arvento"

\* the registry with adapter installed for provider
Installed(provider, adapter) ==
    [p \in DOMAIN parsers \cup {provider} |-> IF p = provider THEN adapter ELSE parsers[p]]

\* C14 (as claimed): a connect handler constructs a new adapter and calls its
\* connect, and nothing else of any adapter; if connect returned True the
\* registry afterwards maps the provider to the new adapter and is otherwise
\* as before, and if not the registry is unchanged.
C14_ConnectInstallsOnSuccess ==
    [][(f_op' # f_op /\ f_op'.handler \in ConnectHandlers) =>
          /\ Len(f_op'.calls) = 1
          /\ f_op'.calls[1].provider = ProviderOf(f_op')
          /\ f_op'.calls[1].method = "connect"
          /\ ProviderOf(f_op') \in DOMAIN parsers =>
                f_op'.calls[1].adapter # parsers[ProviderOf(f_op')]
          /\ IF f_op'.calls[1].result = RBool(TRUE)
             THEN parsers' = Installed(ProviderOf(f_op'), f_op'.calls[1].adapter)
             ELSE parsers' = parsers]_vars

\* what C14 claims, of the Arvento connect handler alone
C14_ArventoConnectInstalls ==
    [][(f_op' # f_op /\ f_op'.handler = "arvento_connect") =>
          /\ Len(f_op'.calls) = 1
          /\ f_op'.calls[1].provider = "arvento"
          /\ f_op'.calls[1].method = "connect"
          /\ "arvento" \in DOMAIN parsers => f_op'.calls[1].adapter # parsers["arvento"]
          /\ IF f_op'.calls[1].result = RBool(TRUE)
             THEN /\ parsers' = Installed("arvento", f_op'.calls[1].adapter)
                  /\ f_op'.status = 200
             ELSE /\ parsers' = parsers
                  /\ f_op'.status = 401]_vars

\* the response r was given while no adapter was installed for its provider
Unconnected(r) ==
    /\ r.handler \in TrackimoHandlers \cup ArventoHandlers \cup {"disconnect_provider"}
    /\ ProviderOf(r) \notin DOMAIN r.parsers0

\* C15 (as claimed): a handler other than connect, called while no adapter is
\* installed for its provider, fails with a status that is neither that of an
\* authentication failure (401) nor that of not-found (404), calls no adapter
\* and makes no network call.
C15_NotConnectedIsDistinct ==
    Unconnected(f_op) =>
        /\ f_op.status \notin {200, 401, 404}
        /\ f_op.calls = <<>>
        /\ f_op.io = <<>>

\* what holds of the handlers without an adapter: 400, but 404 from disconnect
C15_NotConnectedAnswers ==
    Unconnected(f_op) =>
        /\ f_op.status = IF f_op.handler = "disconnect_provider" THEN 404 ELSE 400
        /\ f_op.calls = <<>>
        /\ f_op.io = <<>>

\* the fields of GPSLocation and of GPSDevice (models.py lines 20-34, 58-65)
GPSLocationFields ==
    {"device_id", "provider", "latitude", "longitude", "altitude", "speed", "course",
     "battery", "timestamp", "address", "odometer", "is_moving", "is_gps_fix", "hdop",
     "raw_data"}
GPSDeviceFields ==
    {"device_id", "provider", "name", "imsi", "status", "device_type", "last_location",
     "raw_data"}

\* C19 (as claimed): a Location in a response of the facade has every field of
\* GPSLocation but raw_data, and a Device every field of GPSDevice but raw_data.
C19_ProjectionHasEveryField ==
    /\ (f_op.handler \in {"arvento_get_location", "arvento_get_location_by_plate"}
          /\ f_op.status = 200) =>
            DOMAIN f_op.body = GPSLocationFields \ {"raw_data"}
    /\ (f_op.handler = "arvento_add_vehicle" /\ f_op.status = 200) =>
            DOMAIN f_op.body = GPSDeviceFields \ {"raw_data"}

\* the fields the projections do carry
C19_ProjectionFields ==
    /\ (f_op.handler \in {"arvento_get_location", "arvento_get_location_by_plate"}
          /\ f_op.status = 200) =>
            DOMAIN f_op.body = GPSLocationFields \ {"raw_data", "hdop"}
    /\ (f_op.handler = "arvento_add_vehicle" /\ f_op.status = 200) =>
            DOMAIN f_op.body = GPSDeviceFields \ {"raw_data", "imsi", "device_type"}

\* C12: the aggregation calls get_devices of every adapter in the registry,
\* once each and nothing else, answers with status 200 whether or not a call
\* raised, and its result holds the projection of every device that a call
\* which did not raise returned.
C12_AggregateIsolatesFailures ==
    f_op.handler = "get_all_devices" =>
        /\ {c.provider : c \in Range(f_op.calls)} = DOMAIN f_op.parsers0
        /\ Len(f_op.calls) = Cardinality(DOMAIN f_op.parsers0)
        /\ \A c \in Range(f_op.calls) :
              /\ c.method = "get_devices"
              /\ c.adapter = f_op.parsers0[c.provider]
        /\ f_op.status = 200
        /\ \A c \in Range(f_op.calls) :
              c.result.k = "devices" =>
                 \A node \in DOMAIN c.result.devices :
                     _device_to_response(c.result.devices[node]) \in f_op.body.items

\* the Trackimo adapter raised and the devices of the Arvento adapter, the two
\* of the fixture and more, were returned
C12_Witness ==
    /\ f_op.handler = "get_all_devices"
    /\ \E c \in Range(f_op.calls) : c.provider = "trackimo" /\ c.result.k = "raise"
    /\ \E c \in Range(f_op.calls) :
          /\ c.provider = "arvento"
          /\ {"NODE001", "NODE002"} \subseteq DOMAIN c.result.devices
    /\ Cardinality(f_op.body.items) >= 2

\* the response r says that no adapter is installed
NotConnected(r) ==
    /\ r.status \in {400, 404}
    /\ r.detail \in {"Trackimo not connected", "Arvento not connected",
                     "Provider not connected"}
    /\ r.calls = <<>>

\* C16: disconnect of an installed provider calls the adapter's disconnect and
\* removes the entry, leaving the rest of the registry; the status report
\* lists the providers of the registry; a handler called for a provider that
\* is not in the registry answers "not connected"; and a provider enters the
\* registry only by a connect handler that answered 200.
C16_DisconnectRemoves ==
    [][/\ (f_op' # f_op /\ f_op'.handler = "disconnect_provider"
             /\ f_op'.arg \in DOMAIN parsers) =>
            /\ f_op'.calls = <<AdapterCall(f_op'.arg, parsers[f_op'.arg], "disconnect",
                                           RNone)>>
            /\ f_op'.arg = "arvento" => (~a_connected' /\ ~a_client')
            /\ parsers' = [p \in DOMAIN parsers \ {f_op'.arg} |-> parsers[p]]
       /\ (f_op' # f_op /\ f_op'.handler = "get_status") =>
            /\ f_op'.body.connected_providers = DOMAIN parsers
            /\ parsers' = parsers
       /\ (f_op' # f_op /\ Unconnected(f_op')) =>
            /\ NotConnected(f_op')
            /\ parsers' = parsers
       /\ \A p \in DOMAIN parsers' \ DOMAIN parsers :
            /\ f_op'.handler \in ConnectHandlers
            /\ ProviderOf(f_op') = p
            /\ f_op'.status = 200]_vars

\* the Arvento adapter was disconnected through the facade and a later
\* operation for it was answered with "not connected"
C16_Witness ==
    /\ f_op.handler \in ArventoHandlers
    /\ NotConnected(f_op)
    /\ a_op.name = "disconnect"
    /\ "arvento" \notin DOMAIN parsers

\* ------------------------------------------------------------- sequencing
\* the endpoints of the requests of the log, in the order they were sent
RECURSIVE Requests(_)
Requests(l) ==
    IF l = <<>> THEN <<>>
    ELSE (IF l[1].ev = "http" THEN <<l[1].ep>> ELSE <<>>) \o Requests(Tail(l))

\* every request of the log but the last was answered before the next was sent
OneAtATime ==
    \A i, j \in DOMAIN log :
        (i < j /\ log[i].ev = "http" /\ log[j].ev = "http") =>
            \E n \in DOMAIN log : i < n /\ n < j /\ log[n].ev = "resp" /\ log[n].ep = log[i].ep

AllResponsesGood == \A i \in DOMAIN log : log[i].ev = "resp" => log[i].status = 200

\* C21: within one operation no request is sent before the response to the
\* previous one has arrived (the detail requests of get_devices among them),
\* and a username/password connect that returned True after 200 responses only
\* sent login, oauth2/auth, oauth2/token and users/me, once each, in that order.
C21_RequestsSequential ==
    /\ OneAtATime
    /\ (PasswordConnect /\ ConnectReturned(TRUE) /\ AllResponsesGood) =>
          Requests(log) = <<"login", "oauth2/auth", "oauth2/token", "users/me">>

\* ------------------------------------------------ plate resolution over HTTP
\* the text of the result element of a vendor document
ResultText(root, method) ==
    LET found == SelectSeq(Iter(StripNs(root)), LAMBDA e : e.tag = ResultTag(method))
    IN  IF found = <<>> THEN RNone ELSE found[1].text

\* a plate resolution that POSTed the hand-built envelope and was answered 200
ResolvedOverHttp ==
    /\ a_op.name = "get_node_from_license_plate"
    /\ a_log # <<>>
    /\ a_log[1].via = "http"
    /\ a_log[1].answer.status = 200

\* C24: on the hand-built path a plate resolution answered with status 200
\* returns the text of the GetNodeFromLicensePlateResult element of the
\* answer, and None only if the vendor put no node there.
C24_HttpResolutionReturnsNode ==
    ResolvedOverHttp =>
        a_op.result = ResultText(a_log[1].answer.root, "GetNodeFromLicensePlate")

\* ---------------------------------------------------------- add_vehicle
Methods(l) == [i \in DOMAIN l |-> l[i].method]

\* C25: add_vehicle resolves the plate first; if it does not resolve, None is
\* returned, no status is requested and the registry is as before; if it
\* resolves, the status of the node is requested next and the returned device
\* replaces whatever the registry held under the node id.
C25_AddVehicle ==
    a_op.name = "add_vehicle" =>
        IF a_op.result = RNone
        THEN /\ a_devices = a_op.devices0
             /\ \A i \in DOMAIN a_log : a_log[i].method = "GetNodeFromLicensePlate"
             /\ Len(a_log) <= 1
        ELSE /\ a_op.result.k = "device"
             /\ a_op.result.device_id = a_op.node
             /\ a_devices = (a_op.node :> a_op.result) @@ a_op.devices0
             /\ DOMAIN a_devices = DOMAIN a_op.devices0 \cup {a_op.node}
             /\ Methods(a_log) \in {<<>>, <<"GetNodeFromLicensePlate",
                                          "GetVehicleStatusByNodeV3">>}
             /\ (a_log = <<>>) = a_offline

\* add_vehicle has replaced a device that the registry held under the node
C25_Witness ==
    /\ a_op.name = "add_vehicle"
    /\ a_op.result # RNone
    /\ a_op.node \in DOMAIN a_op.devices0
    /\ a_op.devices0[a_op.node] # a_op.result

\* add_vehicle has returned None for a plate the vendor does not hold
C25_WitnessNotFound ==
    /\ a_op.name = "add_vehicle"
    /\ a_op.result = RNone
    /\ a_log # <<>>

\* ------------------------------------------------ authentication parameters
\* the SOAP calls of the log: through the rich client or by POST
SoapCalls == {i \in DOMAIN a_log : a_log[i].via \in {"zeep", "http"}}

\* C26: the parameters of every SOAP call, on either path, begin with
\* Username, PIN1 and PIN2 holding the values the adapter was constructed
\* with, and the parameters of the call follow them.
C26_AuthParamsFirst ==
    \A i \in SoapCalls :
        LET params == a_log[i].params
        IN  /\ Len(params) >= 3
            /\ SubSeq(params, 1, 3) = _get_auth_params
            /\ \A n \in 4..Len(params) : params[n][1] \notin Keys(_get_auth_params)

\* an operation has POSTed an envelope that holds a parameter of its own
C26_Witness ==
    \E i \in SoapCalls : a_log[i].via = "http" /\ Len(a_log[i].params) > 3

\* ------------------------------------------------------ plate resolutions
\* C27: once a plate has resolved to a node on an adapter, the next resolution
\* of the same plate on that adapter returns the same node, whatever the
\* vendor answers to it.
C27_ResolutionIsSticky ==
    [][(/\ a_op.name = "get_node_from_license_plate"
        /\ a_op.result # RNone
        /\ a_op'.name = "get_node_from_license_plate"
        /\ a_op'.plate = a_op.plate)
       => a_op'.result = a_op.result]_vars

\* ------------------------------------------------- lifetime of a device entry
\* C28: no step other than disconnect takes a device id out of the registry
\* of the Trackimo adapter, and a get_devices that returns gives back the whole
\* registry, every device that was registered when it was called included: a
\* device returned once is returned by every later get_devices.
C28_DeviceEntriesStay ==
    [][/\ (DOMAIN _devices \subseteq DOMAIN _devices') \/ op'.name = "disconnect"
       /\ GetDevicesReturned' =>
             /\ op'.result.devices = _devices'
             /\ op'.known0 \subseteq DOMAIN op'.result.devices]_vars

\* a get_devices whose listing yielded nothing has returned the devices that
\* were registered before it
C28_Witness ==
    /\ GetDevicesReturned
    /\ Listed = {}
    /\ op.known0 # {}
    /\ op.known0 \subseteq DOMAIN op.result.devices

\* the Arvento adapter: no operation takes a node out of the registry, and
\* get_devices returns the whole registry
C28_ArventoEntriesStay ==
    [][/\ DOMAIN a_devices \subseteq DOMAIN a_devices'
       /\ a_op'.name = "get_devices" => a_op'.result.devices = a_devices']_vars

\* ------------------------------------------------ account id after connect
\* C29: when connect has returned True, by password or by refresh token, the
\* account id is known, so that _ensure_authenticated passes for the
\* operation called next.
C29_ConnectedKnowsAccount ==
    ConnectReturned(TRUE) => _ensure_authenticated

\* ----------------------------------------------------- connect terminates
\* C30: the requests of a connect are bounded whatever the vendor answers:
\* its one authenticated request, the fetch of the account, is answered 401
\* with a single refresh and a single retry and nothing beyond, so that no
\* second refresh is triggered by a 401 and the account is asked for at most
\* three times (by the connect, inside that refresh, and by the retry).
C30_ConnectRequestsBounded ==
    op.name = "connect" =>
        /\ Cardinality(RefreshesBy("401")) <= 1
        /\ Cardinality(HttpTo("users/me")) <= 3

\* ------------------------------------------------ concurrent connect handlers
\* the adapter the registry holds for "arvento"
Registered == IF "arvento" \in DOMAIN parsers THEN {parsers["arvento"]} ELSE {}

\* the adapter of the handler that answered 200 last, if that was a connect
LastConnected ==
    IF events = <<>> \/ events[Len(events)].handler # "arvento_connect" THEN {}
    ELSE {events[Len(events)].adapter}

\* the adapters that were in the registry when another connect installed its own
Superseded ==
    {events[i].adapter : i \in {j \in 1..(Len(events) - 1) :
                                  /\ events[j].handler = "arvento_connect"
                                  /\ events[j + 1].handler = "arvento_connect"}}

\* C22: however the arvento_connect handlers interleave, the registry holds
\* at most one adapter under the name, and it is the adapter of the connect
\* that succeeded last (none after a later disconnect); an adapter that was
\* replaced this way has never had disconnect called on it.
C22_LastWriteWins ==
    /\ Cardinality(Registered) <= 1
    /\ Registered = LastConnected
    /\ \A a \in Superseded : ~instances[a].torn

\* two handlers were in flight together; the adapter constructed first was
\* installed last and is the one the registry holds
C22_Witness ==
    /\ \A t \in 1..MaxTasks : tasks[t].pc = "idle"
    /\ \E i, j \in DOMAIN events :
          /\ i < j
          /\ j = Len(events)
          /\ events[i].handler = "arvento_connect"
          /\ events[j].handler = "arvento_connect"
          /\ events[j].adapter < events[i].adapter
          /\ Registered = {events[j].adapter}
          /\ events[i].adapter \in Superseded

\* ------------------------------------------------------ no shared state
\* what an adapter object holds: its fields and the contents of its dicts
View(b) ==
    [fields |-> instances[b],
     devices |-> dicts[instances[b]._devices],
     nodes |-> dicts[instances[b]._mock_nodes],
     locations |-> dicts[instances[b]._mock_locations]]

\* C23: a step that acts on one adapter object (its construction, connect,
\* get_devices, add_vehicle, disconnect) leaves the fields and the dicts of
\* every other adapter object as they were.
C23_NoSharedState ==
    [][\A b \in DOMAIN instances : b # acted'.adapter => View(b)' = View(b)]_vars

\* add_vehicle has written to one adapter while another adapter exists whose
\* registry differs
C23_Witness ==
    /\ acted.by = "add_vehicle"
    /\ \E b \in DOMAIN instances :
          /\ b # acted.adapter
          /\ View(b).devices # View(acted.adapter).devices
          /\ View(acted.adapter).devices # <<>>

\* ------------------------------------------------- the Arvento device listing
\* the node ids an operation that has returned registers: the node of a
\* successful add_vehicle, the fixture nodes of a connect in offline mode
Registers(o) ==
    IF o.name = "add_vehicle" /\ o.result # RNone THEN {o.node}
    ELSE IF o.name = "connect" /\ a_offline /\ o.result = RBool(TRUE)
    THEN {"NODE001", "NODE002"}
    ELSE {}

\* the operations that resolve a plate or fetch a status
ArventoLookups ==
    {"get_node_from_license_plate", "get_vehicle_status", "get_vehicle_by_plate",
     "get_device_location", "get_device_history"}

\* C33: the node ids of the registry are those of the successful add_vehicle
\* calls, one entry each, and the two fixture nodes after a connect in offline
\* mode; a plate resolution or a status fetch leaves the registry as it was;
\* get_devices makes no network call, changes nothing and returns the
\* registry.
C33_ListingIsRegistry ==
    [][/\ DOMAIN a_devices' = DOMAIN a_devices \cup Registers(a_op')
       /\ a_op'.name \in ArventoLookups => a_devices' = a_devices
       /\ a_op'.name = "get_devices" =>
            /\ a_log' = <<>>
            /\ a_devices' = a_devices
            /\ a_op'.result.devices = a_devices]_vars

\* get_devices of an online adapter has returned the one vehicle that
\* add_vehicle registered, without a network call
C33_Witness ==
    /\ a_op.name = "get_devices"
    /\ ~a_offline
    /\ DOMAIN a_op.result.devices = {"NODE001"}
    /\ a_log = <<>>

\* ------------------------------------------------------- after disconnect
\* the entries of the log after a disconnect that ran while the operation
\* was suspended
AfterDisconnect ==
    {j \in DOMAIN log : \E i \in DOMAIN log : i < j /\ log[i] = DisconnectEv}

\* C31: once disconnect has run while an operation other than connect was
\* suspended at a network call, the operation sends no login, refresh or
\* resource request and the adapter holds no access token.
C31_DisconnectedStaysSilent ==
    (op.name # "connect" /\ DisconnectEv \in Range(log)) =>
        /\ \A j \in AfterDisconnect : log[j].ev # "http"
        /\ _access_token = None

\* the same between operations: the operation called after a disconnect,
\* unless it is connect, raises before it sends anything
C31_NextOperationRaises ==
    [][(op.name = "disconnect" /\ op'.name \notin {"disconnect", "connect"}) =>
          op'.status = "raised"]_vars

====
